---------------------------- MODULE Spec2Model ----------------------------
(***************************************************************************)
(* A model of the grid-mapping and spatial-resampling core of xcube:       *)
(*   xcube/core/gridmapping/base.py      GridMapping                       *)
(*   xcube/core/gridmapping/regular.py   RegularGridMapping, factories     *)
(*   xcube/core/resampling/spatial.py    resample_in_space                 *)
(*   xcube/core/resampling/affine.py     affine_transform_dataset          *)
(*                                                                         *)
(* Numbers that are floats in the program are exact rationals <<n, d>>     *)
(* here (d > 0, lowest terms).  Python's None is "None" for a tri-state    *)
(* flag, <<>> for an optional tuple and NoneArg for an optional size.      *)
(***************************************************************************)
EXTENDS Integers, Sequences, FiniteSets, TLC

VARIABLES
    heap,       \* the GridMapping objects that exist; an object's id is its index
    locks,      \* the RLock objects: lock id -> [owner, count]
    pc,         \* thread -> position in the method it is running
    frame,      \* thread -> the locals of the method it is running
    new_calls,  \* object id -> number of times _new_xy_coords has run on it
    reads,      \* object id -> the values that reads of xy_coords have returned
    next_array, \* identity of the next DataArray that gets created
    born,       \* object id -> how the object came to exist (history)
    calls,      \* number of calls made so far
    last        \* the outcome of the operation that completed last

vars == <<heap, locks, pc, frame, new_calls, reads, next_array, born, calls,
          last>>

---------------------------------------------------------------------------
(* Bounds of the model.                                                    *)

NumThreads == 2
MaxObjects == 3
MaxArrays == 3
MaxCalls == 3
MaxGridMappings == 2

---------------------------------------------------------------------------
(* Exact rational arithmetic.                                              *)

Abs(n) == IF n < 0 THEN -n ELSE n

RECURSIVE GCD(_, _)
GCD(a, b) == IF b = 0 THEN a ELSE GCD(b, a % b)

Rat(n, d) ==
    LET g == GCD(Abs(n), Abs(d))
        s == IF d < 0 THEN -1 ELSE 1
    IN  <<(s * n) \div g, (s * d) \div g>>

RInt(n) == <<n, 1>>
RAdd(p, q) == Rat(p[1] * q[2] + q[1] * p[2], p[2] * q[2])
RSub(p, q) == Rat(p[1] * q[2] - q[1] * p[2], p[2] * q[2])
RMul(p, q) == Rat(p[1] * q[1], p[2] * q[2])
RDiv(p, q) == Rat(p[1] * q[2], p[2] * q[1])
RNeg(p) == <<-p[1], p[2]>>
RAbs(p) == <<Abs(p[1]), p[2]>>
RLt(p, q) == p[1] * q[2] < q[1] * p[2]
RLe(p, q) == p[1] * q[2] <= q[1] * p[2]
RGt(p, q) == RLt(q, p)
RMin(p, q) == IF RLe(p, q) THEN p ELSE q
RMax(p, q) == IF RLe(p, q) THEN q ELSE p
RIsZero(p) == p[1] = 0
RFloor(p) == p[1] \div p[2]

\* Python's round(): to the nearest integer, a tie going to the even one.
RRound(p) ==
    LET f == RFloor(p)
        twice == RSub(RMul(RInt(2), p), RInt(2 * f))  \* 2 * (p - f), in [0, 2)
    IN  IF RLt(twice, RInt(1)) THEN f
        ELSE IF RGt(twice, RInt(1)) THEN f + 1
        ELSE IF f % 2 = 0 THEN f ELSE f + 1

IsCloseOneSided(a, b, tol) == RLe(RSub(a, b), tol)

\* math.isclose(a, b, abs_tol=tol): the default rel_tol of 1e-9 is below every
\* difference of two distinct numbers of this model.
IsClose(a, b, tol) == RLe(RAbs(RSub(a, b)), tol)


---------------------------------------------------------------------------
(* Values shared by the operations.                                        *)

None == <<>>

\* The outcome of a call: a returned value or a raised exception.  A message
\* is the sequence of the parts that the program's f-string joins.
Ok(v) == [kind |-> "ok", exc |-> "", msg |-> <<>>, val |-> v]
Raise(e, m) == [kind |-> "raise", exc |-> e, msg |-> m, val |-> None]
IsOk(r) == r.kind = "ok"

\* A reference to the object with identity id, as a returned value.
Ref(id) == [ref |-> id]

\* An argument that may be None, one number or a pair of numbers.
NoneArg == [k |-> "none", a |-> 0, b |-> 0]
NumArg(n) == [k |-> "num", a |-> n, b |-> n]
PairArg(a, b) == [k |-> "pair", a |-> a, b |-> b]

\* Python's truth value of an integer argument: None and 0 are false,
\* a tuple of two elements is true.
Truthy(arg) ==
    CASE arg.k = "none" -> FALSE
      [] arg.k = "num" -> arg.a # 0
      [] OTHER -> TRUE

\* Python's truth value of a tri-state flag True / False / None.
IsTrue(flag) == flag = "True"

\* Coordinate reference systems: pyproj.crs.CRS objects, compared by ==.
CRS_WGS84 == "EPSG:4326"
CRS_CRS84 == "CRS84"
CRS_UTM33 == "EPSG:32633"
AllCrs == {CRS_WGS84, CRS_CRS84, CRS_UTM33}
is_geographic(crs) == crs \in {CRS_WGS84, CRS_CRS84}
crs_name(crs) ==
    CASE crs = CRS_WGS84 -> "WGS 84"
      [] crs = CRS_CRS84 -> "WGS 84 (CRS84)"
      [] OTHER -> "WGS 84 / UTM zone 33N"

---------------------------------------------------------------------------
(* util/assertions.py and gridmapping/helpers.py                           *)

assert_true_skipped(value, message) == Ok(None)

\* assert_true(value, message): ValueError(message) unless value is true.
assert_true(value, message) ==
    IF ~value THEN Raise("ValueError", <<message>>) ELSE Ok(None)

_normalize_int_pair(value, name, default) ==
    IF value.k = "none" /\ default.k # "none" THEN Ok(<<default.a, default.b>>)
    ELSE IF value.k = "none"
    THEN Raise("ValueError", <<name, " must be an int or a sequence of two ints">>)
    ELSE Ok(<<value.a, value.b>>)

_normalize_number_pair(value, name) ==
    IF value.k = "none"
    THEN Raise("ValueError", <<name, " must be a number or a sequence of two numbers">>)
    ELSE Ok(<<value.a, value.b>>)

\* Two names, none of them empty, different from each other.
_assert_valid_xy_names(value, name) ==
    IF Len(value) = 2 /\ value[1] # "" /\ value[2] # "" /\ value[1] # value[2]
    THEN Ok(value)
    ELSE Raise("ValueError", <<"invalid ", name>>)

_default_xy_var_names(crs) ==
    IF is_geographic(crs) THEN <<"lon", "lat">> ELSE <<"x", "y">>

_default_xy_dim_names(crs) == _default_xy_var_names(crs)

scale_xy_res_and_size(xy_res, size, xy_scale) ==
    << <<RDiv(xy_res[1], xy_scale[1]), RDiv(xy_res[2], xy_scale[2])>>,
       <<RRound(RMul(xy_scale[1], RInt(size[1]))),
         RRound(RMul(xy_scale[2], RInt(size[2])))>> >>

---------------------------------------------------------------------------
(* GridMapping: construction and properties.                               *)

\* GridMapping.__init__, reached through a concrete subclass cls; kw holds
\* the keyword arguments, lock is the identity of the RLock it creates.
GridMapping__init__(cls, kw, lock) ==
    LET size == _normalize_int_pair(kw.size, "size", NoneArg)
        width == size.val[1]
        height == size.val[2]
        tile == _normalize_int_pair(kw.tile_size, "tile_size", PairArg(width, height))
        var_names == _assert_valid_xy_names(kw.xy_var_names, "xy_var_names")
        dim_names == _assert_valid_xy_names(kw.xy_dim_names, "xy_dim_names")
        res == _normalize_number_pair(kw.xy_res, "xy_res")
        size_ok == assert_true(width > 1 /\ height > 1, "invalid size")
        tile_ok == assert_true(tile.val[1] > 1 /\ tile.val[2] > 1, "invalid tile_size")
        res_ok == assert_true(RGt(res.val[1], RInt(0)) /\ RGt(res.val[2], RInt(0)),
                              "invalid xy_res")
    IN  IF ~IsOk(size) THEN size
          ELSE IF ~IsOk(size_ok) THEN size_ok
          ELSE IF ~IsOk(tile) THEN tile
          ELSE IF ~IsOk(tile_ok) THEN tile_ok
          ELSE IF ~IsOk(var_names) THEN var_names
          ELSE IF ~IsOk(dim_names) THEN dim_names
          ELSE IF ~IsOk(res) THEN res
          ELSE IF ~IsOk(res_ok) THEN res_ok
          ELSE
                Ok([cls |-> cls,
                    lock |-> lock,
                    size |-> size.val,
                    tile_size |-> tile.val,
                    xy_coords |-> None,
                    xy_bbox |-> kw.xy_bbox,
                    xy_res |-> res.val,
                    crs |-> kw.crs,
                    xy_var_names |-> kw.xy_var_names,
                    xy_dim_names |-> kw.xy_dim_names,
                    is_regular |-> kw.is_regular,
                    is_lon_360 |-> kw.is_lon_360,
                    is_j_axis_up |-> kw.is_j_axis_up])

width(gm) == gm.size[1]
height(gm) == gm.size[2]
tile_width(gm) == gm.tile_size[1]
tile_height(gm) == gm.tile_size[2]
x_min(gm) == gm.xy_bbox[1]
y_min(gm) == gm.xy_bbox[2]
x_max(gm) == gm.xy_bbox[3]
y_max(gm) == gm.xy_bbox[4]
x_res(gm) == gm.xy_res[1]
y_res(gm) == gm.xy_res[2]

xy_coords_chunks_swapped(gm) == <<2, tile_width(gm), tile_height(gm)>>

xy_coords_chunks(gm) == <<2, tile_height(gm), tile_width(gm)>>

_assert_regular_skipped(gm) == Ok(None)

\* GridMapping._assert_regular: the exception it raises, if any.
_assert_regular(gm) ==
    IF ~IsTrue(gm.is_regular)
    THEN Raise("NotImplementedError",
               <<"Operation not implemented for non-regular grid mappings">>)
    ELSE Ok(None)

assert_regular_skipped(value, name) == Ok(None)

\* GridMapping.assert_regular(value, name).
assert_regular(value, name) ==
    IF ~IsTrue(value.is_regular)
    THEN Raise("ValueError", <<name, " must be a regular grid mapping">>)
    ELSE Ok(None)

\* xarray's DataArray.chunk: a new array object with the same values.
Chunk(array, chunks, id) == [array EXCEPT !.id = id, !.chunks = chunks]

---------------------------------------------------------------------------
(* GridMapping.derive.                                                     *)

\* The arguments of derive; None (<<>>, NoneArg, "None") leaves a field alone.
DeriveArgs(xy_var_names, xy_dim_names, tile_size, is_j_axis_up) ==
    [xy_var_names |-> xy_var_names, xy_dim_names |-> xy_dim_names,
     tile_size |-> tile_size, is_j_axis_up |-> is_j_axis_up]

rechunked_dropped(other, id) == None

\* The cache of the copy after derive has changed the tile size: the array
\* of the receiver, rechunked to the copy's tile size, if there is one.
rechunked(other, id) ==
    IF other.xy_coords # None
    THEN Chunk(other.xy_coords, xy_coords_chunks(other), id)
    ELSE other.xy_coords

\* The exception that derive raises for these arguments, if any.
derive_check(a) ==
    LET var_names == _assert_valid_xy_names(a.xy_var_names, "xy_var_names")
        dim_names == _assert_valid_xy_names(a.xy_dim_names, "xy_dim_names")
        tile == _normalize_int_pair(a.tile_size, "tile_size", NoneArg)
    IN  IF a.xy_var_names # None /\ ~IsOk(var_names) THEN var_names
          ELSE IF a.xy_dim_names # None /\ ~IsOk(dim_names) THEN dim_names
          ELSE IF a.tile_size # NoneArg /\ ~IsOk(tile) THEN tile
          ELSE IF a.tile_size # NoneArg THEN
                assert_true(tile.val[1] > 1 /\ tile.val[2] > 1, "invalid tile_size")
          ELSE Ok(None)

\* Whether derive gets to "with self._lock": the tile size changes.
derive_takes_lock(other, a) ==
    /\ IsOk(derive_check(a))
    /\ a.tile_size # NoneArg
    /\ other.tile_size # <<a.tile_size.a, a.tile_size.b>>

\* derive, from other = copy.copy(self) to its return: other is the shallow
\* copy, so it shares the receiver's lock and cached array; id is the identity
\* of the DataArray that rechunking creates.
derive(other, a, id) ==
    LET o1 == IF a.xy_var_names # None
              THEN [other EXCEPT !.xy_var_names = a.xy_var_names] ELSE other
        o2 == IF a.xy_dim_names # None
              THEN [o1 EXCEPT !.xy_dim_names = a.xy_dim_names] ELSE o1
        o3 == IF derive_takes_lock(other, a)
              THEN LET t == [o2 EXCEPT !.tile_size = <<a.tile_size.a, a.tile_size.b>>]
                   IN  [t EXCEPT !.xy_coords = rechunked(t, id)]
              ELSE o2
        o4 == IF a.is_j_axis_up # "None"
              THEN [o3 EXCEPT !.is_j_axis_up = a.is_j_axis_up] ELSE o3
    IN  IF IsOk(derive_check(a)) THEN Ok(o4) ELSE derive_check(a)

---------------------------------------------------------------------------
(* gridmapping/regular.py                                                  *)

\* RegularGridMapping._new_xy_coords: the x and y coordinates run between
\* the pixel centres of the first and the last column and row.
_new_xy_coords(gm, id) ==
    LET x_res_05 == RDiv(x_res(gm), RInt(2))
        y_res_05 == RDiv(y_res(gm), RInt(2))
        x1 == RAdd(x_min(gm), x_res_05)
        x2 == RSub(x_max(gm), x_res_05)
        y1 == RAdd(y_min(gm), y_res_05)
        y2 == RSub(y_max(gm), y_res_05)
    IN  [id |-> id,
         name |-> "xy_coords",
         dims |-> <<"coord", gm.xy_dim_names[2], gm.xy_dim_names[1]>>,
         shape |-> <<2, height(gm), width(gm)>>,
         x |-> <<x1, x2>>,
         y |-> IF ~IsTrue(gm.is_j_axis_up) THEN <<y2, y1>> ELSE <<y1, y2>>,
         chunks |-> <<2, tile_height(gm), tile_width(gm)>>]

RegularArgs(size, xy_min, xy_res, crs, tile_size, is_j_axis_up) ==
    [size |-> size, xy_min |-> xy_min, xy_res |-> xy_res, crs |-> crs,
     tile_size |-> tile_size, is_j_axis_up |-> is_j_axis_up]

new_regular_grid_mapping(a, lock) ==
    LET size == _normalize_int_pair(a.size, "size", NoneArg)
        w == size.val[1]
        h == size.val[2]
        xy_min == _normalize_number_pair(a.xy_min, "xy_min")
        res == _normalize_number_pair(a.xy_res, "xy_res")
        xmin == xy_min.val[1]
        ymin == xy_min.val[2]
        xmax == RAdd(xmin, RMul(res.val[1], RInt(w)))
        ymax == RAdd(ymin, RMul(res.val[2], RInt(h)))
        size_ok == assert_true(w > 1 /\ h > 1, "invalid size")
        res_ok == assert_true(RGt(res.val[1], RInt(0)) /\ RGt(res.val[2], RInt(0)),
                              "invalid xy_res")
    IN  IF ~IsOk(size) THEN size
          ELSE IF ~IsOk(size_ok) THEN size_ok
          ELSE IF ~IsOk(xy_min) THEN xy_min
          ELSE IF ~IsOk(res) THEN res
          ELSE IF ~IsOk(res_ok) THEN res_ok
          ELSE IF is_geographic(a.crs) /\ RLt(ymin, RInt(-90)) THEN
                Raise("ValueError", <<"invalid y_min">>)
          ELSE IF is_geographic(a.crs) /\ RGt(ymax, RInt(90)) THEN
                Raise("ValueError", <<"invalid size, y_min combination">>)
          ELSE
                GridMapping__init__("RegularGridMapping",
                    [size |-> PairArg(w, h),
                     tile_size |-> IF Truthy(a.tile_size) THEN a.tile_size
                                   ELSE PairArg(w, h),
                     xy_bbox |-> <<xmin, ymin, xmax, ymax>>,
                     xy_res |-> PairArg(res.val[1], res.val[2]),
                     crs |-> a.crs,
                     xy_var_names |-> _default_xy_var_names(a.crs),
                     xy_dim_names |-> _default_xy_dim_names(a.crs),
                     is_regular |-> "True",
                     is_lon_360 |-> IF RGt(xmax, RInt(180)) THEN "True" ELSE "False",
                     is_j_axis_up |-> a.is_j_axis_up],
                    lock)

\* to_regular_grid_mapping; is_self says that the grid mapping itself is
\* returned, lock and id name the objects a new grid mapping would create.
to_regular_grid_mapping(gm, tile_size, is_j_axis_up, lock, id) ==
    IF IsTrue(gm.is_regular)
    THEN IF tile_size # NoneArg \/ is_j_axis_up # gm.is_j_axis_up
         THEN [is_self |-> FALSE,
               out |-> derive(gm, DeriveArgs(None, None, tile_size, is_j_axis_up), id)]
         ELSE [is_self |-> TRUE, out |-> Ok(gm)]
    ELSE LET res == IF ~RIsZero(RMin(x_res(gm), y_res(gm)))
                    THEN RMin(x_res(gm), y_res(gm))
                    ELSE RMax(x_res(gm), y_res(gm))
             w == RRound(RDiv(RAdd(RSub(x_max(gm), x_min(gm)), res), res))
             h == RRound(RDiv(RAdd(RSub(y_max(gm), y_min(gm)), res), res))
         IN  [is_self |-> FALSE,
              out |-> new_regular_grid_mapping(
                  RegularArgs(PairArg(IF w >= 2 THEN w ELSE 2, IF h >= 2 THEN h ELSE 2),
                              PairArg(x_min(gm), y_min(gm)),
                              NumArg(res), gm.crs, tile_size, is_j_axis_up),
                  lock)]

\* GridMapping.scale.
Min(a, b) == IF a <= b THEN a ELSE b

scale(gm, xy_scale, tile_size, lock, id) ==
    LET sc == _normalize_number_pair(xy_scale, "xy_scale")
        new == scale_xy_res_and_size(gm.xy_res, gm.size, sc.val)
        new_xy_res == new[1]
        new_size == new[2]
        tile == IF tile_size # NoneArg
                THEN _normalize_int_pair(tile_size, "tile_size", NoneArg)
                ELSE Ok(gm.tile_size)
        reg == new_regular_grid_mapping(
                   RegularArgs(PairArg(new_size[1], new_size[2]),
                               PairArg(x_min(gm), y_min(gm)),
                               PairArg(new_xy_res[1], new_xy_res[2]),
                               gm.crs,
                               PairArg(Min(new_size[1], tile.val[1]),
                                       Min(new_size[2], tile.val[2])),
                               gm.is_j_axis_up),
                   lock)
    IN  IF ~IsOk(_assert_regular(gm)) THEN _assert_regular(gm)
          ELSE IF ~IsOk(sc) THEN sc
          ELSE IF ~IsOk(tile) THEN tile
          ELSE IF ~IsOk(reg) THEN reg
          ELSE derive(reg.val,
                             DeriveArgs(gm.xy_var_names, gm.xy_dim_names, NoneArg, "None"),
                             id)

---------------------------------------------------------------------------
(* Affine transformation matrices, and the operations on regular grids.    *)

\* helpers._to_affine: the Affine object of a matrix ((a, b, c), (d, e, f)).
_to_affine(matrix) ==
    [a |-> matrix[1][1], b |-> matrix[1][2], c |-> matrix[1][3],
     d |-> matrix[2][1], e |-> matrix[2][2], f |-> matrix[2][3]]

\* helpers._from_affine: the matrix of an Affine object.
_from_affine(m) == << <<m.a, m.b, m.c>>, <<m.d, m.e, m.f>> >>

\* Affine.__invert__, "~m", of a map with a determinant other than zero.
AffineInvert(m) ==
    LET det == RSub(RMul(m.a, m.e), RMul(m.b, m.d))
        ra == RDiv(m.e, det)
        rb == RDiv(RNeg(m.b), det)
        rd == RDiv(RNeg(m.d), det)
        re == RDiv(m.a, det)
    IN  [a |-> ra, b |-> rb,
         c |-> RSub(RMul(RNeg(m.c), ra), RMul(m.f, rb)),
         d |-> rd, e |-> re,
         f |-> RSub(RMul(RNeg(m.c), rd), RMul(m.f, re))]

\* Affine.__mul__, "m * n": apply n first, then m.
AffineMul(m, n) ==
    [a |-> RAdd(RMul(m.a, n.a), RMul(m.b, n.d)),
     b |-> RAdd(RMul(m.a, n.b), RMul(m.b, n.e)),
     c |-> RAdd(RAdd(RMul(m.a, n.c), RMul(m.b, n.f)), m.c),
     d |-> RAdd(RMul(m.d, n.a), RMul(m.e, n.d)),
     e |-> RAdd(RMul(m.d, n.b), RMul(m.e, n.e)),
     f |-> RAdd(RAdd(RMul(m.d, n.c), RMul(m.e, n.f)), m.f)]

\* Affine.__mul__ with a point, "m * (x, y)": the image of the point.
AffineApply(m, p) ==
    <<RAdd(RAdd(RMul(m.a, p[1]), RMul(m.b, p[2])), m.c),
      RAdd(RAdd(RMul(m.d, p[1]), RMul(m.e, p[2])), m.f)>>

ij_to_xy_transform_j_up(gm) ==
    Ok(<< <<x_res(gm), RInt(0), x_min(gm)>>, <<RInt(0), y_res(gm), y_min(gm)>> >>)

\* The property ij_to_xy_transform.
ij_to_xy_transform(gm) ==
    IF ~IsOk(_assert_regular(gm)) THEN _assert_regular(gm)
    ELSE IF IsTrue(gm.is_j_axis_up)
    THEN Ok(<< <<x_res(gm), RInt(0), x_min(gm)>>,
               <<RInt(0), y_res(gm), y_min(gm)>> >>)
    ELSE Ok(<< <<x_res(gm), RInt(0), x_min(gm)>>,
               <<RInt(0), RNeg(y_res(gm)), y_max(gm)>> >>)

xy_to_ij_transform_not_inverted(gm) ==
    IF ~IsOk(_assert_regular(gm)) THEN _assert_regular(gm)
    ELSE ij_to_xy_transform(gm)

\* The property xy_to_ij_transform.
xy_to_ij_transform(gm) ==
    IF ~IsOk(_assert_regular(gm)) THEN _assert_regular(gm)
    ELSE IF ~IsOk(ij_to_xy_transform(gm)) THEN ij_to_xy_transform(gm)
    ELSE Ok(_from_affine(AffineInvert(_to_affine(ij_to_xy_transform(gm).val))))

\* ij_transform_to(other).
ij_transform_to(gm, other) ==
    IF ~IsOk(_assert_regular(gm)) THEN _assert_regular(gm)
    ELSE IF ~IsOk(assert_regular(other, "other")) THEN assert_regular(other, "other")
    ELSE IF ~IsOk(ij_to_xy_transform(gm)) THEN ij_to_xy_transform(gm)
    ELSE IF ~IsOk(xy_to_ij_transform(other)) THEN xy_to_ij_transform(other)
    ELSE Ok(_from_affine(AffineMul(_to_affine(xy_to_ij_transform(other).val),
                                   _to_affine(ij_to_xy_transform(gm).val))))

ij_transform_from_not_inverted(gm, other) ==
    IF ~IsOk(_assert_regular(gm)) THEN _assert_regular(gm)
    ELSE IF ~IsOk(assert_regular(other, "other")) THEN assert_regular(other, "other")
    ELSE ij_transform_to(gm, other)

\* ij_transform_from(other).
ij_transform_from(gm, other) ==
    IF ~IsOk(_assert_regular(gm)) THEN _assert_regular(gm)
    ELSE IF ~IsOk(assert_regular(other, "other")) THEN assert_regular(other, "other")
    ELSE IF ~IsOk(ij_transform_to(gm, other)) THEN ij_transform_to(gm, other)
    ELSE Ok(_from_affine(AffineInvert(_to_affine(ij_transform_to(gm, other).val))))

\* coords.grid_mapping_to_coords: the coordinate variables of a regular grid,
\* named by their variable names, with or without cell boundaries.
grid_mapping_to_coords(gm, xy_var_names, xy_dim_names, exclude_bounds) ==
    LET var_names == IF xy_var_names # None THEN xy_var_names ELSE gm.xy_var_names
        dim_names == IF xy_dim_names # None THEN xy_dim_names ELSE gm.xy_dim_names
    IN  Ok([vars |-> var_names, dims |-> dim_names,
            sizes |-> <<width(gm), height(gm)>>, bounds |-> ~exclude_bounds])

\* to_coords.
to_coords(gm, xy_var_names, xy_dim_names, exclude_bounds) ==
    IF ~IsOk(_assert_regular(gm)) THEN _assert_regular(gm)
    ELSE grid_mapping_to_coords(gm, xy_var_names, xy_dim_names, exclude_bounds)

DEFAULT_TOLERANCE == Rat(1, 100000)

\* is_close(other); self_is_other is the outcome of "self is other".
is_close(gm, other, self_is_other, tolerance) ==
    IF self_is_other THEN TRUE
    ELSE IF /\ gm.is_j_axis_up = other.is_j_axis_up
            /\ gm.is_lon_360 = other.is_lon_360
            /\ gm.is_regular = other.is_regular
            /\ gm.size = other.size
            /\ gm.tile_size = other.tile_size
            /\ gm.crs = other.crs
    THEN IF /\ IsClose(x_res(gm), x_res(other), tolerance)
            /\ IsClose(y_res(gm), y_res(other), tolerance)
         THEN /\ IsClose(x_min(gm), x_min(other), tolerance)
              /\ IsClose(y_min(gm), y_min(other), tolerance)
              /\ IsClose(x_max(gm), x_max(other), tolerance)
              /\ IsClose(y_max(gm), y_max(other), tolerance)
         ELSE FALSE
    ELSE FALSE

---------------------------------------------------------------------------
(* resampling/affine.py and resampling/spatial.py                          *)

\* An xarray Dataset: its name and the steps that produced it from the
\* dataset of that name.  Every step creates a new Dataset object.
Dataset(name) == [name |-> name, has_bounds |-> FALSE, steps |-> <<>>]
Step(dataset, step) == [dataset EXCEPT !.steps = Append(@, step)]

\* resample_dataset: the variables resampled by the matrix to the size.
resample_dataset(dataset, matrix, size, tile_size, xy_dim_names) ==
    Step(dataset, [op |-> "resample_dataset", matrix |-> matrix, size |-> size,
                   tile_size |-> tile_size, dims |-> xy_dim_names])

crs_check_skipped(source_gm, target_gm) == Ok(None)

\* "if source_gm.crs != target_gm.crs: raise ValueError(...)"
crs_check(source_gm, target_gm) ==
    IF source_gm.crs # target_gm.crs
    THEN Raise("ValueError",
               <<"CRS of source_gm and target_gm must be equal, was \"",
                 crs_name(source_gm.crs), "\" and \"",
                 crs_name(target_gm.crs), "\"">>)
    ELSE Ok(None)

affine_transform_dataset(dataset, source_gm, target_gm) ==
    LET matrix == ij_transform_to(target_gm, source_gm)
        new_coords == to_coords(target_gm, source_gm.xy_var_names,
                                source_gm.xy_dim_names, ~dataset.has_bounds)
    IN  IF ~IsOk(crs_check(source_gm, target_gm))
        THEN crs_check(source_gm, target_gm)
        ELSE IF ~IsOk(assert_regular(source_gm, "source_gm"))
        THEN assert_regular(source_gm, "source_gm")
        ELSE IF ~IsOk(assert_regular(target_gm, "target_gm"))
        THEN assert_regular(target_gm, "target_gm")
        ELSE IF ~IsOk(matrix) THEN matrix
        ELSE IF ~IsOk(new_coords) THEN new_coords
        ELSE Ok(Step(resample_dataset(dataset, matrix.val, target_gm.size,
                                      target_gm.tile_size, source_gm.xy_dim_names),
                     [op |-> "assign_coords", coords |-> new_coords.val]))

\* rectify.rectify_dataset: the dataset rectified to the target grid, or None
\* if the source does not overlap the target.
rectify_dataset(dataset, source_gm, target_gm, overlap) ==
    IF overlap
    THEN Ok(Step(dataset, [op |-> "rectify_dataset", size |-> target_gm.size,
                           tile_size |-> target_gm.tile_size]))
    ELSE Ok(None)

transform_grid_mapping_via_crs84(gm, crs, tr, lock) ==
    GridMapping__init__("Coords2DGridMapping",
        [size |-> PairArg(width(gm), height(gm)),
         tile_size |-> PairArg(tile_width(gm), tile_height(gm)),
         xy_bbox |-> tr.xy_bbox,
         xy_res |-> PairArg(tr.xy_res[1], tr.xy_res[2]),
         crs |-> IF gm.crs = CRS_CRS84 THEN crs ELSE CRS_CRS84,
         xy_var_names |-> <<"transformed_x", "transformed_y">>,
         xy_dim_names |-> gm.xy_dim_names,
         is_regular |-> tr.is_regular,
         is_lon_360 |-> "False",
         is_j_axis_up |-> gm.is_j_axis_up],
        lock)

\* transform.transform_grid_mapping: the grid of the coordinates of gm
\* reprojected to crs; tr holds what the reprojection yields.
transform_grid_mapping(gm, crs, tr, lock) ==
    GridMapping__init__("Coords2DGridMapping",
        [size |-> PairArg(width(gm), height(gm)),
         tile_size |-> PairArg(tile_width(gm), tile_height(gm)),
         xy_bbox |-> tr.xy_bbox,
         xy_res |-> PairArg(tr.xy_res[1], tr.xy_res[2]),
         crs |-> crs,
         xy_var_names |-> <<"transformed_x", "transformed_y">>,
         xy_dim_names |-> gm.xy_dim_names,
         is_regular |-> tr.is_regular,
         is_lon_360 |-> "False",
         is_j_axis_up |-> gm.is_j_axis_up],
        lock)

\* dataset.new_grid_mapping_from_dataset, for the downscaled dataset of a
\* source that is not regular: its 2D coordinates, of the new size.
new_grid_mapping_from_dataset(source_gm, size, xy_res, lock) ==
    GridMapping__init__("Coords2DGridMapping",
        [size |-> PairArg(size[1], size[2]),
         tile_size |-> PairArg(tile_width(source_gm), tile_height(source_gm)),
         xy_bbox |-> source_gm.xy_bbox,
         xy_res |-> PairArg(xy_res[1], xy_res[2]),
         crs |-> source_gm.crs,
         xy_var_names |-> source_gm.xy_var_names,
         xy_dim_names |-> source_gm.xy_dim_names,
         is_regular |-> source_gm.is_regular,
         is_lon_360 |-> source_gm.is_lon_360,
         is_j_axis_up |-> source_gm.is_j_axis_up],
        lock)

_SCALE_LIMIT == Rat(95, 100)

\* A resample_in_space without its lines 118 to 120: it resamples whatever
\* the grid mappings are.
resample_without_fast_path(dataset, source_gm, target_gm, self_is_target, env, lock, id) ==
    IF target_gm = None THEN Raise("ValueError", <<"target_gm must be given">>)
    ELSE affine_transform_dataset(dataset, source_gm, target_gm)

\* resample_in_space.  target_gm may be None; self_is_target is the outcome
\* of "source_gm is target_gm" for a given target.  env holds what the
\* reprojection and the rectification find in the data; lock and id name
\* the objects that a new grid mapping would create.
RECURSIVE resample_in_space(_, _, _, _, _, _, _)
resample_in_space(dataset, source_gm, target_gm, self_is_target, env, lock, id) ==
    LET to_regular == to_regular_grid_mapping(source_gm, NoneArg, "False", lock, id)
        tgt == IF target_gm = None THEN to_regular
               ELSE [is_self |-> self_is_target, out |-> Ok(target_gm)]
        target == tgt.out.val
        both_geographic == is_geographic(source_gm.crs) /\ is_geographic(target.crs)
        x_scale == RDiv(x_res(source_gm), x_res(target))
        y_scale == RDiv(y_res(source_gm), y_res(target))
        downscaled_gm_regular == scale(source_gm, PairArg(x_scale, y_scale),
                                       NoneArg, lock, id)
        downscaled == scale_xy_res_and_size(source_gm.xy_res, source_gm.size,
                                            <<x_scale, y_scale>>)
        downscaled_gm == IF IsTrue(source_gm.is_regular) THEN downscaled_gm_regular
                         ELSE new_grid_mapping_from_dataset(
                                  source_gm, downscaled[2], downscaled[1], lock)
        downscaled_dataset ==
            resample_dataset(dataset,
                             << <<x_scale, RInt(1), RInt(0)>>,
                                <<RInt(1), y_scale, RInt(0)>> >>,
                             downscaled_gm.val.size, source_gm.tile_size,
                             source_gm.xy_dim_names)
        transformed_source_gm == transform_grid_mapping(source_gm, target.crs,
                                                        env.tr, lock)
        reprojected_dataset ==
            resample_in_space(
                Step(dataset, [op |-> "assign",
                               vars |-> <<"transformed_x", "transformed_y">>]),
                transformed_source_gm.val, target, FALSE, env, lock, id)
    IN  IF ~IsOk(tgt.out) THEN tgt.out
        ELSE IF is_close(source_gm, target, tgt.is_self, DEFAULT_TOLERANCE)
        THEN Ok(dataset)
        ELSE IF ~IsOk(assert_regular(target, "target_gm"))
        THEN assert_regular(target, "target_gm")
        ELSE IF both_geographic \/ source_gm.crs = target.crs
        THEN IF IsTrue(source_gm.is_regular)
             THEN affine_transform_dataset(dataset, source_gm, target)
             ELSE IF RGt(x_scale, _SCALE_LIMIT) /\ RGt(y_scale, _SCALE_LIMIT)
             THEN rectify_dataset(dataset, source_gm, target, env.overlap)
             ELSE IF ~IsOk(downscaled_gm) THEN downscaled_gm
             ELSE rectify_dataset(downscaled_dataset, downscaled_gm.val, target,
                                  env.overlap)
        ELSE IF ~IsOk(transformed_source_gm) THEN transformed_source_gm
        ELSE IF ~IsOk(reprojected_dataset) THEN reprojected_dataset
        ELSE IF is_geographic(target.crs) THEN reprojected_dataset
        ELSE IF reprojected_dataset.val = None
        THEN Raise("AttributeError",
                   <<"'NoneType' object has no attribute 'assign'">>)
        ELSE Ok(Step(reprojected_dataset.val, [op |-> "assign", vars |-> <<"crs">>]))

---------------------------------------------------------------------------
(* Threads that read xy_coords of, and derive from, shared grid mappings.  *)

Threads == 1..NumThreads
Objects == 1..Len(heap)

R(n, d) == Rat(n, d)

\* The grid mapping every run starts with: 4 x 4 pixels of 10 degrees.
BaseArgs ==
    RegularArgs(PairArg(4, 4), PairArg(R(0, 1), R(0, 1)), NumArg(R(10, 1)),
                CRS_WGS84, NoneArg, "False")

\* The arguments that the threads pass to derive.
ThreadDeriveArgs ==
    { DeriveArgs(None, None, PairArg(4, 2), "None"),
      DeriveArgs(None, None, PairArg(4, 4), "None"),
      DeriveArgs(<<"u", "v">>, <<"i", "j">>, NumArg(2), "True"),
      DeriveArgs(None, None, NumArg(1), "None") }

NoFrame == [op |-> "", obj |-> 0, args |-> None, other |-> None, xy |-> None]

NoLast == Ok(None)

InitThreads ==
    /\ heap = <<new_regular_grid_mapping(BaseArgs, 1).val>>
    /\ locks = [l \in 1..MaxObjects |-> [owner |-> 0, count |-> 0]]
    /\ pc = [t \in Threads |-> "idle"]
    /\ frame = [t \in Threads |-> NoFrame]
    /\ new_calls = [o \in 1..MaxObjects |-> 0]
    /\ reads = [o \in 1..MaxObjects |-> {}]
    /\ next_array = 1
    /\ born = <<[how |-> "regular", from |-> 0, args |-> None,
                 cached |-> FALSE, coords |-> None]>>
    /\ calls = 0
    /\ last = NoLast

\* threading.RLock: acquire and release by thread t.
CanAcquire(l, t) == locks[l].owner \in {0, t}
Acquired(l, t) == [locks EXCEPT ![l] = [owner |-> t, count |-> @.count + 1]]
Released(l) ==
    [locks EXCEPT ![l] = IF @.count = 1 THEN [owner |-> 0, count |-> 0]
                         ELSE [@ EXCEPT !.count = @ - 1]]

Goto(t, label) == pc' = [pc EXCEPT ![t] = label]

\* --- the property xy_coords -------------------------------------------

xy_coords_single_check(gm) == TRUE

\* "if self._xy_coords is None" inside the lock: the double check.
xy_coords_second_check(gm) == gm.xy_coords = None

\* _assert_valid_xy_coords: the array has the shape (2, height, width).
_assert_valid_xy_coords(gm, xy) == xy.shape = <<2, height(gm), width(gm)>>

\* A thread starts to read xy_coords of o: "if self._xy_coords is None".
XYCoordsBegin(t, o) ==
    /\ pc[t] = "idle"
    /\ frame' = [frame EXCEPT ![t] = [NoFrame EXCEPT !.op = "xy_coords", !.obj = o]]
    /\ Goto(t, IF heap[o].xy_coords = None THEN "xy_lock" ELSE "xy_return")
    /\ calls < MaxCalls
    /\ calls' = calls + 1
    /\ UNCHANGED <<heap, locks, new_calls, reads, next_array, born, last>>

\* "with self._lock:", the second check and "xy_coords = self._new_xy_coords()".
\* If the second check finds the cache filled, the with block ends at once.
XYCoordsLock(t) ==
    /\ pc[t] = "xy_lock"
    /\ CanAcquire(heap[frame[t].obj].lock, t)
    /\ IF xy_coords_second_check(heap[frame[t].obj])
       THEN /\ next_array <= MaxArrays
            /\ locks' = Acquired(heap[frame[t].obj].lock, t)
            /\ frame' = [frame EXCEPT ![t].xy =
                             _new_xy_coords(heap[frame[t].obj], next_array)]
            /\ new_calls' = [new_calls EXCEPT ![frame[t].obj] = @ + 1]
            /\ next_array' = next_array + 1
            /\ Goto(t, "xy_store")
       ELSE /\ frame' = [frame EXCEPT ![t].op = "xy_coords after lock"]
            /\ Goto(t, "xy_return")
            /\ UNCHANGED <<locks, new_calls, next_array>>
    /\ UNCHANGED <<heap, reads, born, calls, last>>

\* "_assert_valid_xy_coords(xy_coords); self._xy_coords = xy_coords", and the
\* end of the with block.
XYCoordsStore(t) ==
    /\ pc[t] = "xy_store"
    /\ _assert_valid_xy_coords(heap[frame[t].obj], frame[t].xy)
    /\ heap' = [heap EXCEPT ![frame[t].obj].xy_coords = frame[t].xy]
    /\ locks' = Released(heap[frame[t].obj].lock)
    /\ Goto(t, "xy_return")
    /\ UNCHANGED <<frame, new_calls, reads, next_array, born, calls, last>>

\* "return self._xy_coords"
XYCoordsReturn(t) ==
    /\ pc[t] = "xy_return"
    /\ reads' = [reads EXCEPT ![frame[t].obj] = @ \cup {heap[frame[t].obj].xy_coords}]
    /\ frame' = [frame EXCEPT ![t] = NoFrame]
    /\ Goto(t, "idle")
    /\ UNCHANGED <<heap, locks, new_calls, next_array, born, calls, last>>

\* --- the method derive -------------------------------------------------

copy_alias(self_id, fresh_id) == self_id

\* copy.copy(self): the identity of the object it returns, a fresh one.
copy_copy(self_id, fresh_id) == fresh_id

\* The object obj becomes the object with identity id.
Publish(id, obj, how) ==
    IF id = Len(heap) + 1
    THEN /\ heap' = Append(heap, obj)
         /\ born' = Append(born, how)
    ELSE /\ heap' = [heap EXCEPT ![id] = obj]
         /\ born' = born

\* The history of a derived object: the receiver, the arguments, whether the
\* receiver's cache was filled when it was copied, and the cache it got.
Derived(o, a, other, obj) ==
    [how |-> "derive", from |-> o, args |-> a,
     cached |-> other.xy_coords # None, coords |-> obj.xy_coords]

\* derive up to "with self._lock": the copy, and the checks of the arguments.
\* A call that does not change the tile size returns here.
DeriveBegin(t, o, a) ==
    /\ pc[t] = "idle"
    /\ LET other == heap[o]
           out == derive(other, a, next_array)
           id == copy_copy(o, Len(heap) + 1)
       IN  /\ IsOk(out) => Len(heap) < MaxObjects
           /\ IF ~IsOk(out)
              THEN /\ last' = out
                   /\ UNCHANGED <<heap, born, pc, frame>>
              ELSE IF derive_takes_lock(other, a)
              THEN /\ frame' = [frame EXCEPT ![t] =
                                   [NoFrame EXCEPT !.op = "derive", !.obj = o,
                                                   !.args = a, !.other = other]]
                   /\ Goto(t, "derive_lock")
                   /\ UNCHANGED <<heap, born, last>>
              ELSE /\ Publish(id, out.val, Derived(o, a, other, out.val))
                   /\ last' = Ok(Ref(id))
                   /\ UNCHANGED <<pc, frame>>
    /\ calls < MaxCalls
    /\ calls' = calls + 1
    /\ UNCHANGED <<locks, new_calls, reads, next_array>>

\* "with self._lock:", its body, the rest of derive, and its return: all of
\* it works on the copy, which no other thread can see yet.
DeriveLock(t) ==
    /\ pc[t] = "derive_lock"
    /\ CanAcquire(heap[frame[t].obj].lock, t)
    /\ Len(heap) < MaxObjects
    /\ LET o == frame[t].obj
           other == frame[t].other
           out == derive(other, frame[t].args, next_array)
           id == copy_copy(o, Len(heap) + 1)
       IN  /\ other.xy_coords # None => next_array <= MaxArrays
           /\ next_array' = IF other.xy_coords # None THEN next_array + 1
                            ELSE next_array
           /\ Publish(id, out.val, Derived(o, frame[t].args, other, out.val))
           /\ last' = Ok(Ref(id))
    /\ frame' = [frame EXCEPT ![t] = NoFrame]
    /\ Goto(t, "idle")
    /\ UNCHANGED <<locks, new_calls, reads, calls>>

NextThreads ==
    \E t \in Threads :
        \/ \E o \in Objects : XYCoordsBegin(t, o)
        \/ XYCoordsLock(t)
        \/ XYCoordsStore(t)
        \/ XYCoordsReturn(t)
        \/ \E o \in Objects, a \in ThreadDeriveArgs : DeriveBegin(t, o, a)
        \/ DeriveLock(t)

Spec == InitThreads /\ [][NextThreads]_vars

---------------------------------------------------------------------------
(* Properties of xy_coords and derive under concurrent use.                *)

\* C1: On every grid mapping, whatever the threads do, _new_xy_coords has run
\* at most once, and every read of xy_coords has returned one and the same
\* array: not None, of the shape (2, height, width), and the cached one.
XYCoordsComputedOnce ==
    \A o \in Objects :
        /\ new_calls[o] <= 1
        /\ Cardinality(reads[o]) <= 1
        /\ \A xy \in reads[o] :
              /\ xy # None
              /\ _assert_valid_xy_coords(heap[o], xy)
              /\ xy = heap[o].xy_coords

\* A thread that found the cache empty, waited for the lock and then found
\* the cache filled by the one computation of another thread.
XYCoordsRaceSeen ==
    \E t \in Threads :
        /\ pc[t] = "xy_return"
        /\ frame[t].op = "xy_coords after lock"
        /\ new_calls[frame[t].obj] = 1

\* The object o came from a derive that changed the tile size.
DerivedWithNewTiles(o) ==
    /\ born[o].how = "derive"
    /\ born[o].args.tile_size # NoneArg
    /\ <<born[o].args.tile_size.a, born[o].args.tile_size.b>>
           # heap[born[o].from].tile_size

SameValues(xy1, xy2) ==
    [xy1 EXCEPT !.id = 0, !.chunks = <<>>] = [xy2 EXCEPT !.id = 0, !.chunks = <<>>]

\* C2: A grid mapping derived with another tile size from one whose xy_coords
\* had been computed holds that array rechunked to (2, tile_height,
\* tile_width) of the new tile size, and reads of its xy_coords return it
\* without any call of _new_xy_coords.
DeriveRechunksCache ==
    \A o \in Objects :
        DerivedWithNewTiles(o) /\ born[o].cached =>
            /\ born[o].coords # None
            /\ SameValues(born[o].coords, heap[born[o].from].xy_coords)
            /\ born[o].coords.chunks
                   = <<2, born[o].args.tile_size.b, born[o].args.tile_size.a>>
            /\ heap[o].xy_coords = born[o].coords
            /\ new_calls[o] = 0
            /\ reads[o] \subseteq {born[o].coords}

DeriveRechunkedRead ==
    \E o \in Objects :
        /\ DerivedWithNewTiles(o) /\ born[o].cached
        /\ born[o].args.tile_size.a # born[o].args.tile_size.b
        /\ reads[o] # {}

\* C3, as claimed: A grid mapping derived with another tile size has no
\* coordinates cached, and a read of its xy_coords computes them.
DeriveInvalidatesCache ==
    \A o \in Objects :
        DerivedWithNewTiles(o) =>
            /\ born[o].coords = None
            /\ reads[o] # {} => new_calls[o] = 1

\* C3, amended: A grid mapping derived with another tile size has no
\* coordinates cached exactly if the receiver had none when derive copied it,
\* and only then a read of its xy_coords computes them.
DeriveKeepsCacheState ==
    \A o \in Objects :
        DerivedWithNewTiles(o) =>
            /\ born[o].coords = None <=> ~born[o].cached
            /\ reads[o] # {} => (new_calls[o] = 1 <=> ~born[o].cached)

\* Both cases: o1 was derived from an empty cache and then read, o2 was
\* derived from a filled one.
DeriveBothCacheStatesRead ==
    \E o1, o2 \in Objects :
        /\ DerivedWithNewTiles(o1) /\ ~born[o1].cached /\ reads[o1] # {}
        /\ DerivedWithNewTiles(o2) /\ born[o2].cached
        /\ heap[o2].xy_coords # None

\* A step of derive by some thread.
DeriveStep ==
    \E t \in Threads :
        \/ \E o \in Objects, a \in ThreadDeriveArgs : DeriveBegin(t, o, a)
        \/ DeriveLock(t)

\* C4: No step of derive, returning or raising, changes a field or the
\* cached xy_coords of an existing grid mapping, and the grid mapping that
\* derive returns is none of the existing ones.
DeriveLeavesReceiver ==
    [][DeriveStep =>
          /\ \A o \in Objects : heap'[o] = heap[o]
          /\ Len(heap') > Len(heap) => last' = Ok(Ref(Len(heap')))
          /\ last' # last /\ IsOk(last') => last'.val.ref \notin Objects]_vars

DeriveReturnedAndRaised ==
    /\ Len(heap) > 1
    /\ ~IsOk(last)
    /\ \E o \in Objects : heap[o].xy_coords # None /\ born[o].how = "derive"

---------------------------------------------------------------------------
(* One caller that creates grid mappings, queries them and resamples a     *)
(* dataset between them.                                                   *)

\* The call that was made last: the operation, the receiver or source, the
\* other grid mapping or target (0 for None), and the arguments.
Call(op, obj, other, args) == [op |-> op, obj |-> obj, other |-> other, args |-> args]

\* Keyword arguments of the constructor of a subclass, as the tests pass
\* them: a grid of 40 x 40 units from (0, 0).
Kw(size, tile_size, xy_res, crs, is_regular) ==
    [size |-> size, tile_size |-> tile_size,
     xy_bbox |-> <<R(0, 1), R(0, 1), R(40, 1), R(40, 1)>>,
     xy_res |-> xy_res, crs |-> crs,
     xy_var_names |-> _default_xy_var_names(crs),
     xy_dim_names |-> _default_xy_dim_names(crs),
     is_regular |-> is_regular, is_lon_360 |-> "False", is_j_axis_up |-> "False"]

Res(n) == PairArg(R(n, 1), R(n, 1))

ConstructArgs ==
    { Kw(PairArg(4, 4), PairArg(2, 2), Res(10), CRS_WGS84, "False"),
      Kw(PairArg(8, 8), NoneArg, Res(5), CRS_WGS84, "None"),
      Kw(PairArg(4, 4), PairArg(2, 2), Res(10), CRS_UTM33, "None"),
      [Kw(PairArg(4, 4), PairArg(2, 2), PairArg(R(10, 1), R(9, 1)), CRS_UTM33, "None")
           EXCEPT !.xy_bbox = <<R(-1, 1), R(0, 1), R(39, 1), R(40, 1)>>],
      [Kw(PairArg(4, 4), PairArg(2, 2), PairArg(R(10, 1), R(4, 1)), CRS_WGS84, "False")
           EXCEPT !.xy_bbox = <<R(0, 1), R(50, 1), R(40, 1), R(90, 1)>>],
      Kw(PairArg(4, 1), PairArg(2, 2), Res(10), CRS_WGS84, "False"),
      Kw(PairArg(4, 4), PairArg(1, 2), Res(10), CRS_WGS84, "False"),
      Kw(PairArg(4, 4), PairArg(2, 2), PairArg(R(-1, 1), R(10, 1)), CRS_WGS84, "False"),
      Kw(PairArg(1, 1), PairArg(1, 1), Res(0), CRS_WGS84, "False"),
      Kw(PairArg(4, 4), PairArg(1, 1), Res(0), CRS_WGS84, "False") }

SeqRegularArgs ==
    { BaseArgs,
      RegularArgs(NumArg(8), PairArg(R(0, 1), R(0, 1)), NumArg(R(5, 1)),
                  CRS_WGS84, NoneArg, "False"),
      RegularArgs(NumArg(4), PairArg(R(0, 1), R(0, 1)), NumArg(R(10, 1)),
                  CRS_CRS84, NoneArg, "False"),
      RegularArgs(NumArg(4), PairArg(R(0, 1), R(0, 1)), NumArg(R(10, 1)),
                  CRS_UTM33, NumArg(0), "True"),
      RegularArgs(NumArg(1), PairArg(R(0, 1), R(0, 1)), NumArg(R(0, 1)),
                  CRS_WGS84, NumArg(1), "False"),
      RegularArgs(NumArg(4), PairArg(R(0, 1), R(0, 1)), NumArg(R(0, 1)),
                  CRS_WGS84, NumArg(1), "False"),
      RegularArgs(NumArg(4), PairArg(R(0, 1), R(0, 1)), NumArg(R(10, 1)),
                  CRS_WGS84, NumArg(1), "False"),
      RegularArgs(NumArg(4), PairArg(R(0, 1), R(-100, 1)), NumArg(R(10, 1)),
                  CRS_WGS84, NoneArg, "False"),
      RegularArgs(NumArg(4), PairArg(R(0, 1), R(-100, 1)), NumArg(R(10, 1)),
                  CRS_WGS84, NumArg(1), "False"),
      RegularArgs(NumArg(4), PairArg(R(0, 1), R(0, 1)), NumArg(R(30, 1)),
                  CRS_WGS84, NoneArg, "False"),
      RegularArgs(PairArg(4, 2), PairArg(R(10, 1), R(-20, 1)),
                  PairArg(R(5, 1), R(5, 2)), CRS_WGS84, NoneArg, "True") }

ScaleArgs ==
    { [xy_scale |-> NumArg(R(1, 2)), tile_size |-> NoneArg],
      [xy_scale |-> NumArg(R(2, 1)), tile_size |-> NoneArg],
      [xy_scale |-> NumArg(R(4, 1)), tile_size |-> NoneArg],
      [xy_scale |-> NumArg(R(1, 2)), tile_size |-> NumArg(1)] }

ToRegularArgs ==
    { [tile_size |-> NoneArg, is_j_axis_up |-> "False"],
      [tile_size |-> NumArg(2), is_j_axis_up |-> "True"],
      [tile_size |-> NumArg(1), is_j_axis_up |-> "False"] }

\* What a reprojection and a rectification can find.
Envs ==
    { [tr |-> [xy_bbox |-> <<R(0, 1), R(0, 1), R(40, 1), R(40, 1)>>,
               xy_res |-> <<R(tr[1], 1), R(tr[1], 1)>>, is_regular |-> tr[2]],
       overlap |-> ov] : tr \in {<<10, "None">>, <<5, "True">>}, ov \in BOOLEAN }

InitCaller ==
    /\ heap = <<>>
    /\ born = <<>>
    /\ locks = [l \in 1..MaxObjects |-> [owner |-> 0, count |-> 0]]
    /\ pc = [t \in Threads |-> "idle"]
    /\ frame = Call("", 0, 0, None)
    /\ new_calls = [o \in 1..MaxObjects |-> 0]
    /\ reads = [o \in 1..MaxObjects |-> {}]
    /\ next_array = 1
    /\ calls = 0
    /\ last = NoLast

\* The end of a call that returns a new grid mapping or raises.
Returns(out, how) ==
    /\ IsOk(out) => Len(heap) < MaxGridMappings
    /\ IF IsOk(out)
       THEN /\ Publish(Len(heap) + 1, out.val, [how |-> how])
            /\ last' = Ok(Ref(Len(heap) + 1))
       ELSE /\ last' = out
            /\ UNCHANGED <<heap, born>>
    /\ UNCHANGED <<locks, pc, new_calls, reads, next_array, calls>>

\* The end of a call that creates no grid mapping.
Answers(out) ==
    /\ last' = out
    /\ UNCHANGED <<heap, born, locks, pc, new_calls, reads, next_array, calls>>

\* The caller is about to make its next call.
Idle == frame.op = ""

\* The caller drops the outcome of its last call.
Forget ==
    /\ ~Idle
    /\ frame' = Call("", 0, 0, None)
    /\ Answers(NoLast)

\* TestGridMapping(**kw): the constructor, through a plain subclass.
Construct(kw) ==
    /\ Idle
    /\ frame' = Call("GridMapping", 0, 0, kw)
    /\ Returns(GridMapping__init__("TestGridMapping", kw, Len(heap) + 1), "constructor")

\* GridMapping.regular(...)
Regular(a) ==
    /\ Idle
    /\ frame' = Call("regular", 0, 0, a)
    /\ Returns(new_regular_grid_mapping(a, Len(heap) + 1), "regular")

\* gm.derive(...)
Derive(o, a) ==
    /\ Idle
    /\ frame' = Call("derive", o, 0, a)
    /\ Returns(derive(heap[o], a, next_array), "derive")

\* gm.scale(xy_scale, tile_size)
Scale(o, a) ==
    /\ Idle
    /\ frame' = Call("scale", o, 0, a)
    /\ Returns(scale(heap[o], a.xy_scale, a.tile_size, Len(heap) + 1, next_array),
               "scale")

\* gm.to_regular(tile_size, is_j_axis_up): a regular grid mapping may return
\* itself.
ToRegular(o, a) ==
    LET r == to_regular_grid_mapping(heap[o], a.tile_size, a.is_j_axis_up,
                                     Len(heap) + 1, next_array)
    IN  /\ Idle
        /\ frame' = Call("to_regular", o, 0, a)
        /\ IF r.is_self THEN Answers(Ok(Ref(o))) ELSE Returns(r.out, "to_regular")

\* The properties and methods that are defined for regular grid mappings.
Transforms == {"ij_to_xy_transform", "xy_to_ij_transform", "to_coords"}
TransformsTo == {"ij_transform_to", "ij_transform_from"}

Query(o, op) ==
    /\ Idle
    /\ frame' = Call(op, o, 0, None)
    /\ Answers(IF op = "ij_to_xy_transform" THEN ij_to_xy_transform(heap[o])
               ELSE IF op = "xy_to_ij_transform" THEN xy_to_ij_transform(heap[o])
               ELSE to_coords(heap[o], None, None, FALSE))

QueryTo(o, other, op) ==
    /\ Idle
    /\ frame' = Call(op, o, other, None)
    /\ Answers(IF op = "ij_transform_to" THEN ij_transform_to(heap[o], heap[other])
               ELSE ij_transform_from(heap[o], heap[other]))

\* The tolerances passed to is_close.
Tolerances == { DEFAULT_TOLERANCE, R(0, 1), R(1, 1), R(-1, 1) }

\* math.isclose raises for a negative tolerance.
math_isclose_check(tolerance) ==
    IF RLt(tolerance, RInt(0))
    THEN Raise("ValueError", <<"tolerances must be non-negative">>)
    ELSE Ok(None)

\* "if self is other", and the comparisons that come before math.isclose.
ReachesIsClose(gm, other, self_is_other) ==
    /\ ~self_is_other
    /\ gm.is_j_axis_up = other.is_j_axis_up
    /\ gm.is_lon_360 = other.is_lon_360
    /\ gm.is_regular = other.is_regular
    /\ gm.size = other.size
    /\ gm.tile_size = other.tile_size
    /\ gm.crs = other.crs

\* The outcome of gm.is_close(other, tolerance=tolerance).
is_close_outcome(gm, other, self_is_other, tolerance) ==
    IF ReachesIsClose(gm, other, self_is_other) /\ ~IsOk(math_isclose_check(tolerance))
    THEN math_isclose_check(tolerance)
    ELSE Ok(is_close(gm, other, self_is_other, tolerance))

\* heap[o].is_close(heap[other], tolerance=tolerance)
IsCloseTo(o, other, tolerance) ==
    /\ Idle
    /\ frame' = Call("is_close", o, other, tolerance)
    /\ Answers(is_close_outcome(heap[o], heap[other], o = other, tolerance))

\* resample_in_space(dataset, source_gm=heap[s], target_gm=heap[t] or None)
ResampleInSpace(s, t, env) ==
    /\ Idle
    /\ frame' = Call("resample_in_space", s, t, env)
    /\ Answers(resample_in_space(Dataset("dataset"), heap[s],
                                 IF t = 0 THEN None ELSE heap[t], s = t, env,
                                 Len(heap) + 1, next_array))

\* affine_transform_dataset(dataset, source_gm=heap[s], target_gm=heap[t])
AffineTransformDataset(s, t) ==
    /\ Idle
    /\ frame' = Call("affine_transform_dataset", s, t, None)
    /\ Answers(affine_transform_dataset(Dataset("dataset"), heap[s], heap[t]))

NextCaller ==
    \/ \E kw \in ConstructArgs : Construct(kw)
    \/ \E a \in SeqRegularArgs : Regular(a)
    \/ \E o \in Objects, a \in ThreadDeriveArgs : Derive(o, a)
    \/ \E o \in Objects, a \in ScaleArgs : Scale(o, a)
    \/ \E o \in Objects, a \in ToRegularArgs : ToRegular(o, a)
    \/ \E o \in Objects, op \in Transforms : Query(o, op)
    \/ \E o, other \in Objects, op \in TransformsTo : QueryTo(o, other, op)
    \/ \E s \in Objects, t \in Objects \cup {0}, env \in Envs : ResampleInSpace(s, t, env)
    \/ \E s, t \in Objects : AffineTransformDataset(s, t)
    \/ \E o, other \in Objects, tolerance \in Tolerances : IsCloseTo(o, other, tolerance)
    \/ Forget

SpecCaller == InitCaller /\ [][NextCaller]_vars

---------------------------------------------------------------------------
(* Properties of resample_in_space and affine_transform_dataset.           *)

\* The last call was resample_in_space with a target grid mapping.
Resampled == frame.op = "resample_in_space" /\ frame.other # 0
Affined == frame.op = "affine_transform_dataset"
SourceGm == heap[frame.obj]
TargetGm == heap[frame.other]
SourceIsClose ==
    is_close(SourceGm, TargetGm, frame.obj = frame.other, DEFAULT_TOLERANCE)

\* The target that resample_in_space derives from the source if none is given.
DefaultTarget ==
    to_regular_grid_mapping(SourceGm, NoneArg, "False", Len(heap) + 1, next_array)

\* C5: Whenever the source grid mapping is close to the target (given, or
\* derived from the source), resample_in_space returns the very dataset it
\* was given: no step of resampling, rectification or reprojection made it.
ResampleCloseReturnsDataset ==
    /\ Resampled /\ SourceIsClose => last = Ok(Dataset("dataset"))
    /\ /\ frame.op = "resample_in_space" /\ frame.other = 0
       /\ IsOk(DefaultTarget.out)
       /\ is_close(SourceGm, DefaultTarget.out.val, DefaultTarget.is_self,
                   DEFAULT_TOLERANCE)
       => last = Ok(Dataset("dataset"))

\* Two different grid mapping objects that are close, and the dataset returned.
ResampleCloseObjects ==
    /\ Resampled /\ SourceIsClose
    /\ frame.obj # frame.other
    /\ last = Ok(Dataset("dataset"))

\* C6, as claimed: Every call of resample_in_space whose target grid mapping
\* is not regular (is_regular False or None) fails and returns no dataset.
ResampleRequiresRegularTarget ==
    Resampled /\ ~IsTrue(TargetGm.is_regular) => ~IsOk(last)

\* C6, amended: Every call of resample_in_space whose target grid mapping is
\* not regular and not close to the source fails with the ValueError
\* "target_gm must be a regular grid mapping" and returns no dataset.
ResampleRejectsTarget ==
    Resampled /\ ~IsTrue(TargetGm.is_regular) /\ ~SourceIsClose =>
        last = Raise("ValueError", <<"target_gm", " must be a regular grid mapping">>)

\* A target of unknown regularity was rejected for a regular source.
ResampleTargetRejected ==
    /\ Resampled /\ ~SourceIsClose
    /\ TargetGm.is_regular = "None" /\ IsTrue(SourceGm.is_regular)
    /\ ~IsOk(last)

\* The dataset is the outcome of the affine transformation alone.
AffineSteps(dataset) ==
    /\ dataset # None
    /\ Len(dataset.steps) = 2
    /\ dataset.steps[1].op = "resample_dataset"
    /\ dataset.steps[2].op = "assign_coords"

\* C7: If source and target grid mapping are both regular, not close, and
\* their CRSs are both geographic or equal, resample_in_space returns the
\* affine-transformed dataset: it raises nothing and rectifies nothing.
ResampleAffineFastPath ==
    /\ Resampled /\ IsTrue(SourceGm.is_regular) /\ IsTrue(TargetGm.is_regular)
    /\ ~SourceIsClose
    /\ \/ is_geographic(SourceGm.crs) /\ is_geographic(TargetGm.crs)
       \/ SourceGm.crs = TargetGm.crs
    => IsOk(last) /\ AffineSteps(last.val)

Range(seq) == {seq[i] : i \in DOMAIN seq}

\* C8: affine_transform_dataset raises a ValueError that names both CRSs
\* whenever the CRSs of source and target differ, whether the grid mappings
\* are regular or not, and a ValueError whenever one of them is not regular;
\* it returns no dataset then.
AffineRejects ==
    Affined =>
        /\ SourceGm.crs # TargetGm.crs =>
              /\ ~IsOk(last) /\ last.exc = "ValueError"
              /\ {crs_name(SourceGm.crs), crs_name(TargetGm.crs)} \subseteq Range(last.msg)
        /\ ~IsTrue(SourceGm.is_regular) \/ ~IsTrue(TargetGm.is_regular) =>
              ~IsOk(last) /\ last.exc = "ValueError"

\* Different CRSs and a source that is not regular: the CRSs were checked first.
AffineRejectedCrsFirst ==
    /\ Affined /\ SourceGm.crs # TargetGm.crs /\ ~IsTrue(SourceGm.is_regular)
    /\ ~IsOk(last) /\ crs_name(SourceGm.crs) \in Range(last.msg)

---------------------------------------------------------------------------
(* Properties of the grid mappings that exist.                             *)

NotImplemented ==
    Raise("NotImplementedError",
          <<"Operation not implemented for non-regular grid mappings">>)

\* C9: Called on a grid mapping whose is_regular is False or None, each of
\* ij_to_xy_transform, xy_to_ij_transform, scale, to_coords, ij_transform_to
\* and ij_transform_from raises NotImplementedError("Operation not
\* implemented for non-regular grid mappings") and yields no result; called
\* on a grid mapping whose is_regular is True, none of them raises it.
RegularOnlyOperations ==
    frame.op \in Transforms \cup TransformsTo \cup {"scale"} =>
        IF IsTrue(heap[frame.obj].is_regular)
        THEN last.exc # "NotImplementedError"
        ELSE last = NotImplemented

\* A transformation to a regular grid refused by a receiver of unknown
\* regularity.
RegularOnlyRefused ==
    /\ frame.op = "ij_transform_to"
    /\ heap[frame.obj].is_regular = "None"
    /\ IsTrue(heap[frame.other].is_regular)
    /\ last = NotImplemented

\* A size or tile size that is given and not greater than one on some axis.
BadPair(arg) == arg.k # "none" /\ ~(arg.a > 1 /\ arg.b > 1)
BadRes(arg) == arg.k # "none" /\ ~(RGt(arg.a, RInt(0)) /\ RGt(arg.b, RInt(0)))

\* The size, tile size and resolution that the last call asks for.
Asked ==
    LET a == frame.args
        gm == heap[frame.obj]
        new == scale_xy_res_and_size(gm.xy_res, gm.size, <<a.xy_scale.a, a.xy_scale.b>>)
        tile == IF a.tile_size # NoneArg THEN <<a.tile_size.a, a.tile_size.b>>
                ELSE gm.tile_size
        none == [size |-> NoneArg, tile_size |-> NoneArg, xy_res |-> NoneArg]
    IN  IF frame.op = "GridMapping"
        THEN [size |-> a.size, tile_size |-> a.tile_size, xy_res |-> a.xy_res]
        ELSE IF frame.op = "regular"
        THEN [size |-> a.size,
              tile_size |-> IF Truthy(a.tile_size) THEN a.tile_size ELSE NoneArg,
              xy_res |-> a.xy_res]
        ELSE IF frame.op = "derive"
        THEN [none EXCEPT !.tile_size = a.tile_size]
        ELSE IF frame.op = "to_regular"
        THEN [none EXCEPT !.tile_size =
                  IF IsTrue(gm.is_regular) \/ Truthy(a.tile_size)
                  THEN a.tile_size ELSE NoneArg]
        ELSE IF frame.op = "scale" /\ IsTrue(gm.is_regular)
        THEN [size |-> PairArg(new[2][1], new[2][2]),
              tile_size |-> PairArg(Min(new[2][1], tile[1]), Min(new[2][2], tile[2])),
              xy_res |-> PairArg(new[1][1], new[1][2])]
        ELSE none

\* regular() checks the latitudes of a geographic grid before it gets to
\* the tile size, also when to_regular calls it for a grid mapping that is
\* not regular.
OtherCheckFails ==
    \/ /\ frame.op = "regular"
       /\ ~BadPair(frame.args.size) /\ ~BadRes(frame.args.xy_res)
       /\ is_geographic(frame.args.crs)
       /\ \/ RLt(frame.args.xy_min.b, RInt(-90))
          \/ RGt(RAdd(frame.args.xy_min.b,
                      RMul(frame.args.xy_res.b, RInt(frame.args.size.b))), RInt(90))
    \/ /\ frame.op = "to_regular"
       /\ ~IsTrue(heap[frame.obj].is_regular)
       /\ is_geographic(heap[frame.obj].crs)
       /\ last.msg \in {<<"invalid y_min">>, <<"invalid size, y_min combination">>}

---------------------------------------------------------------------------
(* Properties of the affine transformations of regular grid mappings.      *)

\* The receiver of the last call, and the other grid mapping it names.
Receiver == heap[frame.obj]
Other == heap[frame.other]

AffineIdentity ==
    [a |-> RInt(1), b |-> RInt(0), c |-> RInt(0),
     d |-> RInt(0), e |-> RInt(1), f |-> RInt(0)]
ProbePoints ==
    { <<RInt(0), RInt(0)>>, <<RInt(1), RInt(0)>>, <<RInt(0), RInt(1)>>,
      <<RInt(3), RInt(-2)>> }

\* C12: For a regular grid mapping gm, xy_to_ij_transform is the exact inverse
\* of ij_to_xy_transform: the two composed in either order map every point
\* to itself.
XYToIJIsInverse ==
    frame.op = "xy_to_ij_transform" /\ IsTrue(Receiver.is_regular) =>
        /\ IsOk(last)
        /\ LET inverse == _to_affine(last.val)
               forward == _to_affine(ij_to_xy_transform(Receiver).val)
           IN  /\ AffineMul(forward, inverse) = AffineIdentity
               /\ AffineMul(inverse, forward) = AffineIdentity
               /\ \A p \in ProbePoints :
                      /\ AffineApply(inverse, AffineApply(forward, p)) = p
                      /\ AffineApply(forward, AffineApply(inverse, p)) = p

\* The inverse of a transform that is not its own inverse: the grid has an
\* origin other than (0, 0) and its j axis points down.
XYToIJOfSkewedGrid ==
    /\ frame.op = "xy_to_ij_transform" /\ IsOk(last)
    /\ ~IsTrue(Receiver.is_j_axis_up)
    /\ ~RIsZero(x_min(Receiver)) /\ x_res(Receiver) # y_res(Receiver)
    /\ last.val # ij_to_xy_transform(Receiver).val

BothRegular ==
    /\ frame.op \in TransformsTo
    /\ IsTrue(Receiver.is_regular) /\ IsTrue(Other.is_regular)

\* C13: For two regular grid mappings a and b, a.ij_transform_to(b) and
\* b.ij_transform_from(a) are the same matrix, and a.ij_transform_from(b) is
\* the inverse of a.ij_transform_to(b).
TransformToFromSymmetry ==
    BothRegular =>
        /\ IsOk(last)
        /\ frame.op = "ij_transform_to" =>
               /\ last.val = ij_transform_from(Other, Receiver).val
               /\ AffineMul(_to_affine(last.val),
                            _to_affine(ij_transform_from(Receiver, Other).val))
                      = AffineIdentity
        /\ frame.op = "ij_transform_from" =>
               /\ last.val = ij_transform_to(Other, Receiver).val
               /\ AffineMul(_to_affine(last.val),
                            _to_affine(ij_transform_to(Receiver, Other).val))
                      = AffineIdentity
               /\ AffineMul(_to_affine(ij_transform_to(Receiver, Other).val),
                            _to_affine(last.val))
                      = AffineIdentity

\* A transform between two grids of different resolutions, which is not the
\* identity.
TransformBetweenDifferentGrids ==
    /\ BothRegular /\ IsOk(last)
    /\ frame.op = "ij_transform_from"
    /\ x_res(Receiver) # x_res(Other)
    /\ _to_affine(last.val) # AffineIdentity

\* The pixel of grid mapping a that lies at the place of pixel p of b.
PixelOf(a, b, p) ==
    AffineApply(_to_affine(xy_to_ij_transform(a).val),
                AffineApply(_to_affine(ij_to_xy_transform(b).val), p))

\* C14: a.ij_transform_to(b) is the matrix that transforms pixel coordinates
\* of b into pixel coordinates of a.
TransformToMapsOtherToSelf ==
    BothRegular /\ frame.op = "ij_transform_to" /\ IsOk(last) =>
        \A p \in ProbePoints :
            AffineApply(_to_affine(last.val), p) = PixelOf(Receiver, Other, p)

---------------------------------------------------------------------------
(* Bounding-box search: ij_bbox_from_xy_bbox and ij_bboxes_from_xy_bboxes  *)
(* of base.py, on the pixel-centre coordinates of a regular grid mapping.  *)

MaxBorder == 2

\* numpy/dask linspace(start, stop, num)[k]
linspace(start, stop, num, k) ==
    IF num = 1 THEN start
    ELSE RAdd(start, RDiv(RMul(RInt(k), RSub(stop, start)), RInt(num - 1)))

\* xy_coords.values[0][j, i] and xy_coords.values[1][j, i]
x_image(xy, j, i) == linspace(xy.x[1], xy.x[2], xy.shape[3], i)
y_image(xy, j, i) == linspace(xy.y[1], xy.y[2], xy.shape[2], j)

\* The property xy_coords as one caller sees it: the cached array, or a new one.
xy_coords(gm, id) ==
    IF gm.xy_coords = None THEN _new_xy_coords(gm, id) ELSE gm.xy_coords

NoBBox == <<-1, -1, -1, -1>>

SetMin(S) == CHOOSE m \in S : \A n \in S : m <= n
SetMax(S) == CHOOSE m \in S : \A n \in S : m >= n
Max(a, b) == IF a >= b THEN a ELSE b

\* bboxes.compute_ij_bboxes, for one row: the smallest index box around the
\* pixels whose coordinates are in xy_bbox grown by xy_border, grown by
\* ij_border and clipped to the image; a row without such a pixel is left
\* as it is.
compute_ij_bbox(xy, xy_bbox, xy_border, ij_border, ij_bbox) ==
    LET h == xy.shape[2]
        w == xy.shape[3]
        bx_min == RSub(xy_bbox[1], xy_border)
        by_min == RSub(xy_bbox[2], xy_border)
        bx_max == RAdd(xy_bbox[3], xy_border)
        by_max == RAdd(xy_bbox[4], xy_border)
        hits == { ji \in (0..(h - 1)) \X (0..(w - 1)) :
                    /\ RLe(bx_min, x_image(xy, ji[1], ji[2]))
                    /\ RLe(x_image(xy, ji[1], ji[2]), bx_max)
                    /\ RLe(by_min, y_image(xy, ji[1], ji[2]))
                    /\ RLe(y_image(xy, ji[1], ji[2]), by_max) }
        is == { ji[2] : ji \in hits }
        js == { ji[1] : ji \in hits }
    IN  IF hits = {} THEN ij_bbox
        ELSE << Max(SetMin(is) - ij_border, 0), Max(SetMin(js) - ij_border, 0),
                Min(SetMax(is) + 1 + ij_border, w),
                Min(SetMax(js) + 1 + ij_border, h) >>

\* bboxes.compute_ij_bboxes: every row of xy_bboxes.
compute_ij_bboxes(xy, xy_bboxes, xy_border, ij_border, ij_bboxes) ==
    [k \in 1..Len(xy_bboxes) |->
        compute_ij_bbox(xy, xy_bboxes[k], xy_border, ij_border, ij_bboxes[k])]

ij_bboxes_not_reset(gm, xy_bboxes, xy_border, ij_border, ij_bboxes, id) ==
    compute_ij_bboxes(xy_coords(gm, id), xy_bboxes, xy_border, ij_border,
                      IF ij_bboxes = None THEN [k \in 1..Len(xy_bboxes) |-> NoBBox]
                      ELSE ij_bboxes)

\* GridMapping.ij_bboxes_from_xy_bboxes: all rows start as -1, in a new array
\* or in the one given.
ij_bboxes_from_xy_bboxes(gm, xy_bboxes, xy_border, ij_border, ij_bboxes, id) ==
    compute_ij_bboxes(xy_coords(gm, id), xy_bboxes, xy_border, ij_border,
                      IF ij_bboxes = None THEN [k \in 1..Len(xy_bboxes) |-> NoBBox]
                      ELSE [k \in 1..Len(ij_bboxes) |-> NoBBox])

\* GridMapping.ij_bbox_from_xy_bbox: the first row for an array of one box.
ij_bbox_from_xy_bbox(gm, xy_bbox, xy_border, ij_border, id) ==
    ij_bboxes_from_xy_bboxes(gm, <<xy_bbox>>, xy_border, ij_border,
                             <<NoBBox>>, id)[1]

\* The grid mappings searched: j axis down and up, square and not.
BBoxGrids ==
    { BaseArgs,
      RegularArgs(PairArg(4, 2), PairArg(R(10, 1), R(-20, 1)),
                  PairArg(R(5, 1), R(5, 2)), CRS_WGS84, NoneArg, "True") }

\* Query boxes; none of their edges, grown or not, is at a pixel centre.
BBoxXs == {-20, 10, 20, 50}
BBoxYs == {-30, -17, 10, 50}
XYBBoxes ==
    { <<RInt(x0), RInt(y0), RInt(x1), RInt(y1)>> :
        x0 \in BBoxXs, y0 \in BBoxYs, x1 \in BBoxXs, y1 \in BBoxYs }
XYBorders == { RInt(0), RInt(3), RInt(-3) }
IJBorders == 0..MaxBorder
XYBBoxArrays ==
    { << <<RInt(-20), RInt(-30), RInt(50), RInt(50)>>,
         <<RInt(50), RInt(50), RInt(50), RInt(50)>> >>,
      << <<RInt(-20), RInt(-30), RInt(10), RInt(-17)>>,
         <<RInt(10), RInt(-17), RInt(20), RInt(10)>> >>,
      << <<RInt(20), RInt(10), RInt(50), RInt(50)>>,
         <<RInt(-20), RInt(50), RInt(10), RInt(50)>> >> }
\* An array the caller passes for the result, with rows of an earlier use.
UsedIJBBoxes == << <<0, 0, 4, 4>>, <<1, 1, 2, 2>> >>

InitBBox ==
    /\ \E a \in BBoxGrids : heap = <<new_regular_grid_mapping(a, 1).val>>
    /\ born = <<[how |-> "regular", from |-> 0, args |-> None,
                 cached |-> FALSE, coords |-> None]>>
    /\ locks = [l \in 1..MaxObjects |-> [owner |-> 0, count |-> 0]]
    /\ pc = [t \in Threads |-> "idle"]
    /\ frame = Call("", 0, 0, None)
    /\ new_calls = [o \in 1..MaxObjects |-> 0]
    /\ reads = [o \in 1..MaxObjects |-> {}]
    /\ next_array = 1
    /\ calls = 0
    /\ last = NoLast

\* "xy_coords = self.xy_coords.values": the array is made and cached by the
\* first call that needs it.
ReadsXYCoords(o) ==
    /\ heap' = [heap EXCEPT ![o].xy_coords = xy_coords(heap[o], next_array)]
    /\ next_array' = IF heap[o].xy_coords = None THEN next_array + 1 ELSE next_array
    /\ new_calls' = [new_calls EXCEPT ![o] = IF heap[o].xy_coords = None
                                             THEN @ + 1 ELSE @]
    /\ UNCHANGED <<born, locks, pc, reads, calls>>

\* gm.ij_bbox_from_xy_bbox(xy_bbox, xy_border, ij_border)
IJBBoxFromXYBBox(o, xy_bbox, xy_border, ij_border) ==
    /\ Idle
    /\ frame' = Call("ij_bbox_from_xy_bbox", o, 0,
                     [xy_bboxes |-> <<xy_bbox>>, xy_border |-> xy_border,
                      ij_border |-> ij_border])
    /\ last' = Ok(<<ij_bbox_from_xy_bbox(heap[o], xy_bbox, xy_border, ij_border,
                                         next_array)>>)
    /\ ReadsXYCoords(o)

\* gm.ij_bboxes_from_xy_bboxes(xy_bboxes, xy_border, ij_border, ij_bboxes)
IJBBoxesFromXYBBoxes(o, xy_bboxes, xy_border, ij_border, ij_bboxes) ==
    /\ Idle
    /\ frame' = Call("ij_bboxes_from_xy_bboxes", o, 0,
                     [xy_bboxes |-> xy_bboxes, xy_border |-> xy_border,
                      ij_border |-> ij_border])
    /\ last' = Ok(ij_bboxes_from_xy_bboxes(heap[o], xy_bboxes, xy_border,
                                           ij_border, ij_bboxes, next_array))
    /\ ReadsXYCoords(o)

ForgetBBox ==
    /\ ~Idle
    /\ frame' = Call("", 0, 0, None)
    /\ last' = NoLast
    /\ UNCHANGED <<heap, born, locks, pc, new_calls, reads, next_array, calls>>

NextBBox ==
    \/ \E o \in Objects, b \in XYBBoxes, xb \in XYBorders, ib \in IJBorders :
           IJBBoxFromXYBBox(o, b, xb, ib)
    \/ \E o \in Objects, bs \in XYBBoxArrays, xb \in XYBorders, ib \in IJBorders,
          given \in {None, UsedIJBBoxes} :
           IJBBoxesFromXYBBoxes(o, bs, xb, ib, given)
    \/ ForgetBBox

SpecBBox == InitBBox /\ [][NextBBox]_vars

BBoxCalled == frame.op \in {"ij_bbox_from_xy_bbox", "ij_bboxes_from_xy_bboxes"}

\* The pixels (j, i) of the receiver whose centre coordinates lie in row k
\* of the queried boxes, grown by xy_border.
PixelsInside(k) ==
    LET gm == Receiver
        b == frame.args.xy_bboxes[k]
        xb == frame.args.xy_border
        x(i) == RAdd(RAdd(x_min(gm), RDiv(x_res(gm), RInt(2))),
                     RMul(RInt(i), x_res(gm)))
        y(j) == IF IsTrue(gm.is_j_axis_up)
                THEN RAdd(RAdd(y_min(gm), RDiv(y_res(gm), RInt(2))),
                          RMul(RInt(j), y_res(gm)))
                ELSE RSub(RSub(y_max(gm), RDiv(y_res(gm), RInt(2))),
                          RMul(RInt(j), y_res(gm)))
    IN  { ji \in (0..(height(gm) - 1)) \X (0..(width(gm) - 1)) :
            /\ RLe(RSub(b[1], xb), x(ji[2])) /\ RLe(x(ji[2]), RAdd(b[3], xb))
            /\ RLe(RSub(b[2], xb), y(ji[1])) /\ RLe(y(ji[1]), RAdd(b[4], xb)) }

\* C15: ij_bbox_from_xy_bbox, and every row of ij_bboxes_from_xy_bboxes, is
\* (-1, -1, -1, -1) exactly when no pixel coordinate of the grid lies in the
\* query box grown by xy_border, and otherwise a half-open index box with
\* 0 <= i_min < i_max <= width and 0 <= j_min < j_max <= height around those
\* pixels; ij_border widens and clips such a box and never makes a box of a
\* row without intersection.
IJBBoxRows ==
    BBoxCalled =>
        /\ IsOk(last)
        /\ Len(last.val) = Len(frame.args.xy_bboxes)
        /\ \A k \in 1..Len(last.val) :
            LET row == last.val[k]
                inside == PixelsInside(k)
                ib == frame.args.ij_border
            IN  /\ (row = NoBBox) <=> (inside = {})
                /\ inside # {} =>
                    /\ 0 <= row[1] /\ row[1] < row[3] /\ row[3] <= width(Receiver)
                    /\ 0 <= row[2] /\ row[2] < row[4] /\ row[4] <= height(Receiver)
                    /\ \A ji \in inside :
                           /\ row[1] <= ji[2] /\ ji[2] < row[3]
                           /\ row[2] <= ji[1] /\ ji[1] < row[4]
                    /\ \E ji \in inside : row[1] = Max(ji[2] - ib, 0)
                    /\ \E ji \in inside : row[2] = Max(ji[1] - ib, 0)
                    /\ \E ji \in inside : row[3] = Min(ji[2] + 1 + ib, width(Receiver))
                    /\ \E ji \in inside : row[4] = Min(ji[1] + 1 + ib, height(Receiver))

\* A search with an index border that returned a row without intersection
\* next to a row with a widened box.
IJBBoxBothKinds ==
    /\ frame.op = "ij_bboxes_from_xy_bboxes" /\ IsOk(last)
    /\ frame.args.ij_border > 0
    /\ \E k \in 1..Len(last.val) : last.val[k] = NoBBox
    /\ \E k \in 1..Len(last.val) :
           /\ last.val[k] # NoBBox
           /\ last.val[k] # <<0, 0, width(Receiver), height(Receiver)>>

---------------------------------------------------------------------------
(* Properties of scale, to_regular and is_close.                           *)

\* The grid mapping the last call returned.
Result == heap[last.val.ref]

\* C16: gm.scale(f) with a factor f lower than one is an up-scaling: the
\* result has smaller pixels and more pixels than gm; a factor larger than
\* one is a down-scaling: larger pixels, smaller image size.
ScaleBelowOneIsUpScaling ==
    frame.op = "scale" /\ IsOk(last) =>
        LET f == frame.args.xy_scale.a
        IN  /\ RLt(f, RInt(1)) =>
                /\ RLt(x_res(Result), x_res(Receiver))
                /\ RLt(y_res(Result), y_res(Receiver))
                /\ width(Result) > width(Receiver)
                /\ height(Result) > height(Receiver)
            /\ RGt(f, RInt(1)) =>
                /\ RGt(x_res(Result), x_res(Receiver))
                /\ RGt(y_res(Result), y_res(Receiver))
                /\ width(Result) < width(Receiver)
                /\ height(Result) < height(Receiver)

\* to_regular of a grid mapping that is not regular, with a valid tile size.
ToRegularOfNonRegular ==
    /\ frame.op = "to_regular"
    /\ ~IsTrue(Receiver.is_regular)
    /\ frame.args.tile_size # NumArg(1)

\* The regular grid mapping that the claim describes.
ToRegularResult ==
    LET res == RMin(x_res(Receiver), y_res(Receiver))
    IN  /\ IsTrue(Result.is_regular)
        /\ Result.crs = Receiver.crs
        /\ x_min(Result) = x_min(Receiver) /\ y_min(Result) = y_min(Receiver)
        /\ x_res(Result) = res /\ y_res(Result) = res
        /\ width(Result) >= 2 /\ height(Result) >= 2
        /\ RLe(x_max(Receiver), RAdd(x_min(Receiver), RMul(res, RInt(width(Result)))))
        /\ RLe(y_max(Receiver), RAdd(y_min(Receiver), RMul(res, RInt(height(Result)))))

\* C17: to_regular on a non-regular grid mapping returns a regular grid
\* mapping with the same CRS and origin, with x and y resolution equal to
\* min(x_res, y_res) of the source and a size of at least 2 by 2 that covers
\* the full extent of the source.
ToRegularCoversSource ==
    ToRegularOfNonRegular => IsOk(last) /\ ToRegularResult

\* Whenever to_regular returns for a non-regular grid mapping, the result is
\* the grid mapping described.
ToRegularCoversSourceIfReturned ==
    ToRegularOfNonRegular /\ IsOk(last) => ToRegularResult

\* C18: is_close is reflexive and symmetric: gm.is_close(gm) is true for
\* every grid mapping, and a.is_close(b, tolerance=t) equals
\* b.is_close(a, tolerance=t) for all grid mappings a, b and every t.
IsCloseReflexiveSymmetric ==
    frame.op = "is_close" =>
        /\ frame.obj = frame.other => last = Ok(TRUE)
        /\ last = is_close_outcome(Other, Receiver, frame.other = frame.obj,
                                   frame.args)
        /\ frame.obj # frame.other /\ IsOk(last) /\ last.val =>
               /\ Receiver.size = Other.size /\ Receiver.crs = Other.crs
               /\ RLe(RAbs(RSub(x_min(Receiver), x_min(Other))), frame.args)
               /\ RLe(RAbs(RSub(x_min(Other), x_min(Receiver))), frame.args)

\* Two different grid mappings, with origins that differ by no more than
\* the tolerance, were found close.
IsCloseWithinTolerance ==
    /\ frame.op = "is_close" /\ frame.obj # frame.other
    /\ x_min(Receiver) # x_min(Other)
    /\ last = Ok(TRUE)

---------------------------------------------------------------------------
(* resampling/affine.py: resample_ndimage on a two-dimensional image.      *)
(* An image is its shape (height, width) and its rows of pixel values; a   *)
(* pixel value is NaN or a number.  Indexes of pixels start at 0.          *)

MaxScaleDivisor == 2

NaN == [nan |-> TRUE, v |-> RInt(0)]
Num(r) == [nan |-> FALSE, v |-> r]
Image(rows) == [shape |-> <<Len(rows), Len(rows[1])>>, data |-> rows]
Pixel(image, j, i) == image.data[j + 1][i + 1]
ImageOf(shape, f(_, _)) ==
    [shape |-> shape,
     data |-> [j \in 1..shape[1] |-> [i \in 1..shape[2] |-> f(j - 1, i - 1)]]]

RCeil(p) == -RFloor(RNeg(p))

RECURSIVE RSum(_)
RSum(seq) == IF seq = <<>> THEN RInt(0) ELSE RAdd(seq[1], RSum(Tail(seq)))

\* _normalize_pair for an image of two dimensions: None, a number or a pair
\* (y, x).
_normalize_pair(pair, default) ==
    IF pair.k = "none" THEN <<default, default>> ELSE <<pair.a, pair.b>>
_normalize_offset(offset) == _normalize_pair(offset, RInt(0))
_normalize_scale(scale_yx) == _normalize_pair(scale_yx, RInt(1))
_normalize_shape(shape, im) == IF shape = NoneArg THEN im.shape ELSE <<shape.a, shape.b>>

\* resize_shape(shape, scale, divisor_x, divisor_y)
resize_shape(shape, scale_yx, divisor_x, divisor_y) ==
    LET wf == RMul(RInt(shape[2]), RAbs(scale_yx[2]))
        hf == RMul(RInt(shape[1]), RAbs(scale_yx[1]))
    IN  << divisor_y * RCeil(RDiv(hf, RInt(divisor_y))),
           divisor_x * RCeil(RDiv(wf, RInt(divisor_x))) >>

\* _is_no_op(im, scale, offset, shape)
_is_no_op(im, scale_yx, offset, shape) ==
    /\ shape = im.shape
    /\ scale_yx = <<RInt(1), RInt(1)>>
    /\ offset = <<RInt(0), RInt(0)>>

\* The pixels of one axis of length n that a sample at coordinate c reads,
\* with their weights: none outside [0, n - 1] (mode='constant'), the nearest
\* pixel for order 0, the two pixels around c for order 1 (at the last pixel
\* the second one is that pixel again, with weight 0).
AxisOutside(c, n) == RLt(c, RInt(0)) \/ RGt(c, RInt(n - 1))
AxisSupport(c, n, order) ==
    IF order = 0
    THEN << <<RFloor(RAdd(c, Rat(1, 2))), RInt(1)>> >>
    ELSE LET k == RFloor(c)
             t == RSub(c, RInt(k))
         IN  << <<k, RSub(RInt(1), t)>>,
                <<IF k + 1 > n - 1 THEN n - 1 ELSE k + 1, t>> >>

\* ndinterp.affine_transform(image, np.diag(scale), offset=offset,
\* order=order, output_shape=shape, mode='constant', cval=cval): output pixel
\* (j, i) is the sample of the image at (scale_y * j + offset_y,
\* scale_x * i + offset_x).  A NaN among the pixels read makes the sample
\* NaN, whatever its weight.
affine_transform(image, scale_yx, offset, order, shape, cval) ==
    LET sample(j, i) ==
            LET cy == RAdd(RMul(scale_yx[1], RInt(j)), offset[1])
                cx == RAdd(RMul(scale_yx[2], RInt(i)), offset[2])
                ys == AxisSupport(cy, image.shape[1], order)
                xs == AxisSupport(cx, image.shape[2], order)
                read == { <<a, b>> : a \in 1..Len(ys), b \in 1..Len(xs) }
                term(a, b) == RMul(RMul(ys[a][2], xs[b][2]),
                                   Pixel(image, ys[a][1], xs[b][1]).v)
            IN  IF AxisOutside(cy, image.shape[1]) \/ AxisOutside(cx, image.shape[2])
                THEN cval
                ELSE IF \E ab \in read : Pixel(image, ys[ab[1]][1], xs[ab[2]][1]).nan
                THEN NaN
                ELSE Num(RSum([a \in 1..Len(ys) |->
                                  RSum([b \in 1..Len(xs) |-> term(a, b)])]))
    IN  ImageOf(shape, sample)

\* da.isnan, da.any, da.where(mask, 0.0, image) and 1.0 - mask
HasNaN(image) ==
    \E j \in 0..(image.shape[1] - 1), i \in 0..(image.shape[2] - 1) :
        Pixel(image, j, i).nan
FilledImage(image) ==
    LET f(j, i) == IF Pixel(image, j, i).nan THEN Num(RInt(0)) ELSE Pixel(image, j, i)
    IN  ImageOf(image.shape, f)
InvertedMask(image) ==
    LET f(j, i) == IF Pixel(image, j, i).nan THEN Num(RInt(0)) ELSE Num(RInt(1))
    IN  ImageOf(image.shape, f)

\* da.isclose(a, 0.0), with its absolute tolerance of 1e-8
IsCloseToZero(a) == RLe(RMul(RAbs(a), RInt(100000000)), RInt(1))

\* da.where(da.isclose(scaled_norm, 0.0), np.nan, scaled_im / scaled_norm)
Renormalized(scaled_im, scaled_norm) ==
    LET f(j, i) == IF IsCloseToZero(Pixel(scaled_norm, j, i).v) THEN NaN
                   ELSE Num(RDiv(Pixel(scaled_im, j, i).v, Pixel(scaled_norm, j, i).v))
    IN  ImageOf(scaled_im.shape, f)

_transform_array_no_recover(image, scale_yx, offset, shape, spline_order, recover_nan) ==
    IF _is_no_op(image, scale_yx, offset, shape) THEN image
    ELSE affine_transform(image, scale_yx, offset, spline_order, shape, NaN)

\* _transform_array(image, scale, offset, shape, chunks, spline_order,
\* recover_nan); the chunks do not change the values.
_transform_array(image, scale_yx, offset, shape, spline_order, recover_nan) ==
    IF _is_no_op(image, scale_yx, offset, shape) THEN image
    ELSE IF recover_nan /\ spline_order > 0 /\ HasNaN(image)
    THEN Renormalized(
             affine_transform(FilledImage(image), scale_yx, offset, spline_order,
                              shape, Num(RInt(0))),
             affine_transform(InvertedMask(image), scale_yx, offset, spline_order,
                              shape, Num(RInt(0))))
    ELSE affine_transform(image, scale_yx, offset, spline_order, shape, NaN)

\* da.coarsen(np.nanmean, image, axes): the mean of the numbers of each block
\* of divisor_y by divisor_x pixels, NaN for a block of NaN only.
coarsen(image, divisor_y, divisor_x) ==
    LET block(j, i) ==
            { <<j * divisor_y + a, i * divisor_x + b>> :
                  a \in 0..(divisor_y - 1), b \in 0..(divisor_x - 1) }
        numbers(j, i) == { q \in block(j, i) : ~Pixel(image, q[1], q[2]).nan }
        RECURSIVE total(_)
        total(S) == IF S = {} THEN RInt(0)
                    ELSE LET q == CHOOSE q \in S : TRUE
                         IN  RAdd(Pixel(image, q[1], q[2]).v, total(S \ {q}))
        f(j, i) == IF numbers(j, i) = {} THEN NaN
                   ELSE Num(RDiv(total(numbers(j, i)),
                                 RInt(Cardinality(numbers(j, i)))))
    IN  ImageOf(<<image.shape[1] \div divisor_y, image.shape[2] \div divisor_x>>, f)

\* "image[..., 0:shape[-2], 0:shape[-1]]"
Cropped(image, shape) ==
    LET f(j, i) == Pixel(image, j, i)
    IN  ImageOf(<<Min(shape[1], image.shape[1]), Min(shape[2], image.shape[2])>>, f)

\* resample_ndimage(image, scale, offset, shape, chunks, spline_order,
\* aggregator, recover_nan); aggregator is np.nanmean or None.
resample_ndimage(image, scale_arg, offset_arg, shape_arg, spline_order, aggregator, recover_nan) ==
    LET offset == _normalize_offset(offset_arg)
        scale_yx == _normalize_scale(scale_arg)
        shape == IF shape_arg = NoneArg THEN resize_shape(image.shape, scale_yx, 1, 1)
                 ELSE _normalize_shape(shape_arg, image)
        divisor_x == RCeil(RAbs(scale_yx[2]))
        divisor_y == RCeil(RAbs(scale_yx[1]))
        elongation == <<RDiv(scale_yx[1], RInt(divisor_y)), RDiv(scale_yx[2], RInt(divisor_x))>>
        larger_shape == resize_shape(shape, <<RInt(divisor_y), RInt(divisor_x)>>,
                                     divisor_x, divisor_y)
        coarse == coarsen(_transform_array(image, elongation, offset, larger_shape,
                                           spline_order, recover_nan),
                          divisor_y, divisor_x)
    IN  IF (divisor_x >= 2 \/ divisor_y >= 2) /\ aggregator # "None"
        THEN IF shape # coarse.shape THEN Cropped(coarse, shape) ELSE coarse
        ELSE _transform_array(image, scale_yx, offset, shape, spline_order, recover_nan)

\* _make_divisible_tiles(larger_shape, divisor_x, divisor_y): (h, w)
_make_divisible_tiles(larger_shape, divisor_x, divisor_y) ==
    << Min(larger_shape[1], divisor_y * ((2048 + divisor_y - 1) \div divisor_y)),
       Min(larger_shape[2], divisor_x * ((2048 + divisor_x - 1) \div divisor_x)) >>

\* The downsampling branch of resample_ndimage up to da.coarsen, for an image
\* that is a dask array with chunks image_chunks (y, x): the divisors, the
\* shape asked for, larger_shape, and the array that _transform_array returns
\* with its chunks: divisible_chunks if affine_transform made it
\* (output_chunks), the chunks of the image if the image itself is returned.
downsampling(image, image_chunks, scale_arg, offset_arg, shape_arg, spline_order, recover_nan) ==
    LET offset == _normalize_offset(offset_arg)
        scale_yx == _normalize_scale(scale_arg)
        shape == IF shape_arg = NoneArg THEN resize_shape(image.shape, scale_yx, 1, 1)
                 ELSE _normalize_shape(shape_arg, image)
        divisor_x == RCeil(RAbs(scale_yx[2]))
        divisor_y == RCeil(RAbs(scale_yx[1]))
        elongation == <<RDiv(scale_yx[1], RInt(divisor_y)), RDiv(scale_yx[2], RInt(divisor_x))>>
        larger_shape == resize_shape(shape, <<RInt(divisor_y), RInt(divisor_x)>>,
                                     divisor_x, divisor_y)
        divisible_chunks == _make_divisible_tiles(larger_shape, divisor_x, divisor_y)
        larger == _transform_array(image, elongation, offset, larger_shape,
                                   spline_order, recover_nan)
    IN  [divisor |-> <<divisor_y, divisor_x>>,
         shape |-> shape,
         image |-> larger,
         chunks |-> IF _is_no_op(image, elongation, offset, larger_shape)
                    THEN image_chunks ELSE divisible_chunks,
         coarse |-> coarsen(larger, divisor_y, divisor_x)]

\* The chunks that the images passed have as dask arrays: one chunk for the
\* whole image, or chunks of one pixel.
ImageChunks(image) == { image.shape, <<1, 1>> }

\* The images resampled: every row of three pixels that are NaN, 1 or 4, and
\* three images of two rows.
PixelValues == { NaN, Num(RInt(1)), Num(RInt(4)) }
Images ==
    { Image(<< <<a, b, c>> >>) : a \in PixelValues, b \in PixelValues, c \in PixelValues }
    \cup { Image(<< <<NaN, Num(RInt(2))>>, <<Num(RInt(6)), NaN>> >>),
           Image(<< <<NaN, NaN>>, <<NaN, NaN>> >>),
           Image(<< <<Num(RInt(1)), Num(RInt(2))>>, <<Num(RInt(3)), NaN>> >>) }
Scales ==
    { NumArg(R(1, 2)), PairArg(R(1, 1), R(3, 2)) }
    \cup { NumArg(RInt(d)) : d \in 1..MaxScaleDivisor }
NoneNumberArg == [k |-> "none", a |-> RInt(0), b |-> RInt(0)]
Offsets == { NoneNumberArg, PairArg(R(0, 1), R(1, 4)), PairArg(R(0, 1), R(-1, 2)) }
Shapes == { NoneArg, PairArg(1, 1), PairArg(1, 4), PairArg(2, 3) }
Aggregators == { "None", "nanmean" }

InitResample ==
    /\ \E image \in Images : \E chunks \in ImageChunks(image) :
           /\ heap = <<image>>
           /\ born = <<[how |-> "image", chunks |-> chunks]>>
    /\ locks = [l \in 1..MaxObjects |-> [owner |-> 0, count |-> 0]]
    /\ pc = [t \in Threads |-> "idle"]
    /\ frame = Call("", 0, 0, None)
    /\ new_calls = [o \in 1..MaxObjects |-> 0]
    /\ reads = [o \in 1..MaxObjects |-> {}]
    /\ next_array = 1
    /\ calls = 0
    /\ last = NoLast

\* resample_ndimage(heap[o], scale, offset, shape, None, spline_order,
\* aggregator, recover_nan)
ResampleNDImage(o, a) ==
    /\ Idle
    /\ frame' = Call("resample_ndimage", o, 0, a)
    /\ Answers(Ok(resample_ndimage(heap[o], a.scale, a.offset, a.shape,
                                   a.spline_order, a.aggregator, a.recover_nan)))

NextResample ==
    \/ \E o \in Objects, sc \in Scales, off \in Offsets, sh \in Shapes,
          order \in {0, 1}, agg \in Aggregators, rec \in BOOLEAN :
           ResampleNDImage(o, [scale |-> sc, offset |-> off, shape |-> sh,
                               spline_order |-> order, aggregator |-> agg,
                               recover_nan |-> rec])
    \/ Forget

SpecResample == InitResample /\ [][NextResample]_vars

\* The weight of pixel k of an axis for a linear interpolation at c.
Hat(c, k) ==
    LET d == RAbs(RSub(c, RInt(k)))
    IN  IF RLt(d, RInt(1)) THEN RSub(RInt(1), d) ELSE RInt(0)

\* The pixels of the image that are numbers, each with its weight in the
\* linear interpolation at (cy, cx); no pixel has a weight beyond the edges.
ValidWeights(image, cy, cx) ==
    IF AxisOutside(cy, image.shape[1]) \/ AxisOutside(cx, image.shape[2]) THEN {}
    ELSE { q \in { <<j, i, RMul(Hat(cy, j), Hat(cx, i))>> :
                       j \in 0..(image.shape[1] - 1), i \in 0..(image.shape[2] - 1) } :
               ~Pixel(image, q[1], q[2]).nan /\ ~RIsZero(q[3]) }

RECURSIVE WeightSum(_)
WeightSum(S) ==
    IF S = {} THEN RInt(0)
    ELSE LET q == CHOOSE q \in S : TRUE IN RAdd(q[3], WeightSum(S \ {q}))

RECURSIVE WeightedSum(_, _)
WeightedSum(image, S) ==
    IF S = {} THEN RInt(0)
    ELSE LET q == CHOOSE q \in S : TRUE
         IN  RAdd(RMul(q[3], Pixel(image, q[1], q[2]).v), WeightedSum(image, S \ {q}))

\* The interpolation of the valid pixels only, normalized by their weights.
ValidInterpolation(image, cy, cx) ==
    RDiv(WeightedSum(image, ValidWeights(image, cy, cx)),
         WeightSum(ValidWeights(image, cy, cx)))

\* The last call: its scale and offset, the path it takes and the shape of
\* its result.
ResampleCall ==
    LET a == frame.args
        sc == IF a.scale.k = "none" THEN <<RInt(1), RInt(1)>> ELSE <<a.scale.a, a.scale.b>>
        off == IF a.offset.k = "none" THEN <<RInt(0), RInt(0)>> ELSE <<a.offset.a, a.offset.b>>
        dy == RCeil(RAbs(sc[1]))
        dx == RCeil(RAbs(sc[2]))
        down == (dy >= 2 \/ dx >= 2) /\ a.aggregator # "None"
    IN  [down |-> down, sc |-> sc, off |-> off, dy |-> dy, dx |-> dx,
         shape |-> IF a.shape = NoneArg
                   THEN << RCeil(RMul(RInt(Receiver.shape[1]), RAbs(sc[1]))),
                           RCeil(RMul(RInt(Receiver.shape[2]), RAbs(sc[2]))) >>
                   ELSE <<a.shape.a, a.shape.b>>]

\* The places in the source image where pixel (j, i) of the result
\* interpolates: one, or one for each pixel that the aggregator combines.
ResamplePlaces(j, i) ==
    LET r == ResampleCall
    IN  IF r.down
        THEN { << RAdd(RMul(RDiv(r.sc[1], RInt(r.dy)), RInt(j * r.dy + m)), r.off[1]),
                  RAdd(RMul(RDiv(r.sc[2], RInt(r.dx)), RInt(i * r.dx + n)), r.off[2]) >> :
                   m \in 0..(r.dy - 1), n \in 0..(r.dx - 1) }
        ELSE { << RAdd(RMul(r.sc[1], RInt(j)), r.off[1]),
                  RAdd(RMul(r.sc[2], RInt(i)), r.off[2]) >> }

RECURSIVE InterpolationSum(_, _)
InterpolationSum(image, P) ==
    IF P = {} THEN RInt(0)
    ELSE LET c == CHOOSE c \in P : TRUE
         IN  RAdd(ValidInterpolation(image, c[1], c[2]), InterpolationSum(image, P \ {c}))

\* C19: With recover_nan=True and spline_order > 0, a pixel of the result of
\* resample_ndimage is NaN exactly when no valid (non-NaN) source value
\* contributes to its interpolation, so an all-NaN input gives an all-NaN
\* output; otherwise it is the interpolation of the valid source values
\* only, normalized by the summed weights of those values (the mean of such
\* interpolations where the aggregator combines several).
RecoverNaNInterpolation ==
    /\ frame.op = "resample_ndimage"
    /\ frame.args.recover_nan /\ frame.args.spline_order > 0
    =>
    /\ IsOk(last)
    /\ last.val.shape = ResampleCall.shape
    /\ \A j \in 0..(last.val.shape[1] - 1), i \in 0..(last.val.shape[2] - 1) :
        LET contributing == { c \in ResamplePlaces(j, i) :
                                  ValidWeights(Receiver, c[1], c[2]) # {} }
        IN  /\ Pixel(last.val, j, i).nan <=> (contributing = {})
            /\ contributing # {} =>
                   Pixel(last.val, j, i).v =
                       RDiv(InterpolationSum(Receiver, contributing),
                            RInt(Cardinality(contributing)))
    /\ (\A j \in 0..(Receiver.shape[1] - 1), i \in 0..(Receiver.shape[2] - 1) :
            Pixel(Receiver, j, i).nan)
           => \A j \in 0..(last.val.shape[1] - 1), i \in 0..(last.val.shape[2] - 1) :
                  Pixel(last.val, j, i).nan

\* A pixel next to NaN was recovered: a source pixel that is NaN has a
\* weight in its interpolation and the result is a number between the
\* valid values.
NaNNeighbourRecovered ==
    /\ frame.op = "resample_ndimage"
    /\ frame.args.recover_nan /\ frame.args.spline_order > 0
    /\ ~ResampleCall.down
    /\ IsOk(last)
    /\ \E j \in 0..(last.val.shape[1] - 1), i \in 0..(last.val.shape[2] - 1) :
        \E c \in ResamplePlaces(j, i) :
            /\ ~Pixel(last.val, j, i).nan
            /\ Cardinality(ValidWeights(Receiver, c[1], c[2])) = 1
            /\ \E l \in 0..(Receiver.shape[2] - 1) :
                   Pixel(Receiver, 0, l).nan /\ ~RIsZero(Hat(c[2], l))
    /\ \E j \in 0..(last.val.shape[1] - 1), i \in 0..(last.val.shape[2] - 1) :
           Pixel(last.val, j, i).nan

---------------------------------------------------------------------------
(* tilingscheme.py: TilingScheme.get_tile_extent.                          *)

MaxTileLevel == 2

\* TilingScheme(num_level_zero_tiles, crs_name, map_height)
DEFAULT_TILE_SIZE == 256
TilingScheme(num_level_zero_tiles, name, height_of_map) ==
    [num_level_zero_tiles |-> num_level_zero_tiles, crs_name |-> name,
     map_height |-> height_of_map, tile_size |-> DEFAULT_TILE_SIZE]

\* The circumference of the earth, to the metre.
EARTH_CIRCUMFERENCE_WGS84 == RInt(40075016)
WEB_MERCATOR == TilingScheme(<<1, 1>>, "EPSG:3857", EARTH_CIRCUMFERENCE_WGS84)
GEOGRAPHIC == TilingScheme(<<2, 1>>, "CRS84", RInt(180))

map_height(ts) == ts.map_height
map_width(ts) ==
    RDiv(RMul(map_height(ts), RInt(ts.num_level_zero_tiles[1])),
         RInt(ts.num_level_zero_tiles[2]))
map_extent(ts) ==
    << RNeg(RDiv(map_width(ts), RInt(2))), RNeg(RDiv(map_height(ts), RInt(2))),
       RDiv(map_width(ts), RInt(2)), RDiv(map_height(ts), RInt(2)) >>

\* "1 << tile_z"
RECURSIVE ShiftLeft(_)
ShiftLeft(z) == IF z = 0 THEN 1 ELSE 2 * ShiftLeft(z - 1)

get_tile_extent_row_0_at_bottom(ts, tile_x, tile_y, tile_z) ==
    IF tile_z < 0 THEN None
    ELSE LET zoom_factor == ShiftLeft(tile_z)
             map_tile_width == RDiv(RDiv(map_width(ts), RInt(zoom_factor)),
                                    RInt(ts.num_level_zero_tiles[1]))
             map_tile_height == RDiv(RDiv(map_height(ts), RInt(zoom_factor)),
                                     RInt(ts.num_level_zero_tiles[2]))
         IN  IF tile_x < 0 \/ tile_x >= ts.num_level_zero_tiles[1] * zoom_factor THEN None
             ELSE IF tile_y < 0 \/ tile_y >= ts.num_level_zero_tiles[2] * zoom_factor
             THEN None
             ELSE << RAdd(map_extent(ts)[1], RMul(RInt(tile_x), map_tile_width)),
                     RAdd(map_extent(ts)[2], RMul(RInt(tile_y), map_tile_height)),
                     RAdd(map_extent(ts)[1], RMul(RInt(tile_x + 1), map_tile_width)),
                     RAdd(map_extent(ts)[2], RMul(RInt(tile_y + 1), map_tile_height)) >>

\* TilingScheme.get_tile_extent(tile_x, tile_y, tile_z)
get_tile_extent(ts, tile_x, tile_y, tile_z) ==
    IF tile_z < 0 THEN None
    ELSE LET zoom_factor == ShiftLeft(tile_z)
             num_tiles_x0 == ts.num_level_zero_tiles[1]
             num_tiles_y0 == ts.num_level_zero_tiles[2]
             num_tiles_x == num_tiles_x0 * zoom_factor
             num_tiles_y == num_tiles_y0 * zoom_factor
             map_x0 == RDiv(RNeg(map_width(ts)), RInt(2))
             map_y0 == RDiv(map_height(ts), RInt(2))
             map_tile_width == RDiv(RDiv(map_width(ts), RInt(zoom_factor)),
                                    RInt(num_tiles_x0))
             map_tile_height == RDiv(RDiv(map_height(ts), RInt(zoom_factor)),
                                     RInt(num_tiles_y0))
         IN  IF tile_x < 0 \/ tile_x >= num_tiles_x THEN None
             ELSE IF tile_y < 0 \/ tile_y >= num_tiles_y THEN None
             ELSE << RAdd(map_x0, RMul(RInt(tile_x), map_tile_width)),
                     RSub(map_y0, RMul(RInt(tile_y + 1), map_tile_height)),
                     RAdd(map_x0, RMul(RInt(tile_x + 1), map_tile_width)),
                     RSub(map_y0, RMul(RInt(tile_y), map_tile_height)) >>

\* p <= q and p < q for rationals of very different magnitude: the common
\* factor of the denominators is taken out before multiplying.
RLeq(p, q) ==
    LET g == GCD(p[2], q[2]) IN p[1] * (q[2] \div g) <= q[1] * (p[2] \div g)
RLtq(p, q) == ~RLeq(q, p)

\* TilingScheme.level_zero_resolution
level_zero_resolution(ts) == RDiv(ts.map_height, RInt(ts.tile_size))

\* TilingScheme.map_unit_name: the unit of the first axis of the CRS.
map_unit_name(ts) == IF ts.crs_name = "CRS84" THEN "degree" ELSE "metre"

_is_meter_unit(unit_name) == unit_name \in {"m", "metre", "metres", "meter", "meters"}
_is_degree_unit(unit_name) ==
    unit_name \in {"deg", "degree", "degrees", "decimal_degree", "decimal_degrees"}

get_unit_factor(unit_name_from, unit_name_to) ==
    IF ~_is_meter_unit(unit_name_from) /\ ~_is_degree_unit(unit_name_from)
    THEN Raise("ValueError", <<"unsupported units", unit_name_from>>)
    ELSE IF ~_is_meter_unit(unit_name_to) /\ ~_is_degree_unit(unit_name_to)
    THEN Raise("ValueError", <<"unsupported units", unit_name_from>>)
    ELSE IF _is_meter_unit(unit_name_from) /\ _is_degree_unit(unit_name_to)
    THEN Ok(RDiv(RInt(360), EARTH_CIRCUMFERENCE_WGS84))
    ELSE IF _is_degree_unit(unit_name_from) /\ _is_meter_unit(unit_name_to)
    THEN Ok(RDiv(EARTH_CIRCUMFERENCE_WGS84, RInt(360)))
    ELSE Ok(RInt(1))

get_resolutions_level_midpoint_down(ts, level, resolutions, unit_name) ==
    LET f_from_map == get_unit_factor(map_unit_name(ts), unit_name)
        ds_pix_size == RDiv(RMul(f_from_map.val, level_zero_resolution(ts)),
                            RInt(ShiftLeft(level)))
        num_ds_levels == Len(resolutions)
        found == { k \in 1..(num_ds_levels - 1) :
                       /\ RLeq(resolutions[k], ds_pix_size)
                       /\ RLeq(ds_pix_size, resolutions[k + 1]) }
        k1 == SetMin(found)
    IN  IF resolutions = <<>> THEN Raise("ValueError", <<"resolutions must be given">>)
        ELSE IF ~IsOk(f_from_map) THEN f_from_map
        ELSE IF level < 0 THEN Raise("ValueError", <<"negative shift count">>)
        ELSE IF RLeq(ds_pix_size, resolutions[1]) THEN Ok(0)
        ELSE IF RLeq(resolutions[num_ds_levels], ds_pix_size) THEN Ok(num_ds_levels - 1)
        ELSE IF found = {} THEN Raise("RuntimeError", <<"should not come here">>)
        ELSE IF resolutions[k1 + 1] = resolutions[k1]
        THEN Raise("ZeroDivisionError", <<"float division by zero">>)
        ELSE IF RLeq(RDiv(RSub(ds_pix_size, resolutions[k1]),
                         RSub(resolutions[k1 + 1], resolutions[k1])), R(1, 2))
        THEN Ok(k1 - 1)
        ELSE Ok(k1)

\* TilingScheme.get_resolutions_level(level, resolutions, unit_name).
\* resolutions[k] is resolutions[k - 1] of the code; found holds the passes
\* of the loop whose test succeeds and the first of them returns.
get_resolutions_level(ts, level, resolutions, unit_name) ==
    LET f_from_map == get_unit_factor(map_unit_name(ts), unit_name)
        ds_pix_size_l0 == RMul(f_from_map.val, level_zero_resolution(ts))
        ds_pix_size == RDiv(ds_pix_size_l0, RInt(ShiftLeft(level)))
        num_ds_levels == Len(resolutions)
        ds_pix_size_min == resolutions[1]
        ds_pix_size_max == resolutions[num_ds_levels]
        found == { k \in 1..(num_ds_levels - 1) :
                       /\ RLeq(resolutions[k], ds_pix_size)
                       /\ RLeq(ds_pix_size, resolutions[k + 1]) }
        k1 == SetMin(found)
        ds_pix_size_1 == resolutions[k1]
        ds_pix_size_2 == resolutions[k1 + 1]
        r == RDiv(RSub(ds_pix_size, ds_pix_size_1),
                  RSub(ds_pix_size_2, ds_pix_size_1))
    IN  IF resolutions = <<>> THEN Raise("ValueError", <<"resolutions must be given">>)
        ELSE IF ~IsOk(f_from_map) THEN f_from_map
        ELSE IF level < 0 THEN Raise("ValueError", <<"negative shift count">>)
        ELSE IF RLeq(ds_pix_size, ds_pix_size_min) THEN Ok(0)
        ELSE IF RLeq(ds_pix_size_max, ds_pix_size) THEN Ok(num_ds_levels - 1)
        ELSE IF found = {} THEN Raise("RuntimeError", <<"should not come here">>)
        ELSE IF ds_pix_size_2 = ds_pix_size_1
        THEN Raise("ZeroDivisionError", <<"float division by zero">>)
        ELSE IF RLtq(r, R(1, 2)) THEN Ok(k1 - 1)
        ELSE Ok(k1)

\* The two tiling schemes of the module, and one of 3 by 2 tiles at level 0.
TilingSchemes ==
    { WEB_MERCATOR, GEOGRAPHIC, TilingScheme(<<3, 2>>, "EPSG:32633", RInt(960)) }

\* Tile indexes and levels: below, in and above the range of every level.
TileIndexes == -1..(3 * ShiftLeft(MaxTileLevel))
TileLevels == -1..MaxTileLevel

InitTiles ==
    /\ \E ts \in TilingSchemes : heap = <<ts>>
    /\ born = <<[how |-> "TilingScheme"]>>
    /\ locks = [l \in 1..MaxObjects |-> [owner |-> 0, count |-> 0]]
    /\ pc = [t \in Threads |-> "idle"]
    /\ frame = Call("", 0, 0, None)
    /\ new_calls = [o \in 1..MaxObjects |-> 0]
    /\ reads = [o \in 1..MaxObjects |-> {}]
    /\ next_array = 1
    /\ calls = 0
    /\ last = NoLast

\* heap[o].get_tile_extent(tile_x, tile_y, tile_z)
GetTileExtent(o, tile_x, tile_y, tile_z) ==
    /\ Idle
    /\ frame' = Call("get_tile_extent", o, 0, <<tile_x, tile_y, tile_z>>)
    /\ Answers(Ok(get_tile_extent(heap[o], tile_x, tile_y, tile_z)))

\* Units of the resolutions of a dataset; "km" is not supported.
UnitNames == {"degrees", "meters", "km"}

\* Resolutions of the levels of a dataset, in degrees and in metres: around
\* the pixel sizes of the tiling schemes' levels (45/64 degrees and 78271.5
\* metres at level 0 of GEOGRAPHIC), one of them half-way between two others.
ResolutionValues(unit_name) ==
    IF _is_degree_unit(unit_name)
    THEN { R(45, 512), R(135, 1024), R(45, 256), R(135, 512), R(45, 128) }
    ELSE { RInt(19568), RInt(30000), RInt(39136), RInt(60000), RInt(78272) }

MaxDatasetLevels == 3

\* Sequences of at most MaxDatasetLevels resolutions, in any order and
\* with repetitions, the empty sequence included.
ResolutionsArgs(unit_name) ==
    UNION { [1..n -> ResolutionValues(unit_name)] : n \in 0..MaxDatasetLevels }

\* heap[o].get_resolutions_level(level, resolutions, unit_name)
GetResolutionsLevel(o, level, resolutions, unit_name) ==
    /\ Idle
    /\ frame' = Call("get_resolutions_level", o, 0, <<level, resolutions, unit_name>>)
    /\ Answers(get_resolutions_level(heap[o], level, resolutions, unit_name))

NextTiles ==
    \/ /\ Idle
       /\ \E o \in Objects, tile_x \in TileIndexes, tile_y \in TileIndexes,
             tile_z \in TileLevels : GetTileExtent(o, tile_x, tile_y, tile_z)
    \/ /\ Idle
       /\ \E o \in Objects, level \in TileLevels, unit_name \in UnitNames :
             \E resolutions \in ResolutionsArgs(unit_name) :
                 GetResolutionsLevel(o, level, resolutions, unit_name)
    \/ Forget

SpecTiles == InitTiles /\ [][NextTiles]_vars

\* The tile asked for, and the numbers of tiles of its level.
Tile ==
    LET z == frame.args[3]
        two_to_z == IF z < 0 THEN 0 ELSE 2 ^ z
    IN  [x |-> frame.args[1], y |-> frame.args[2], z |-> z,
         nx |-> Receiver.num_level_zero_tiles[1] * two_to_z,
         ny |-> Receiver.num_level_zero_tiles[2] * two_to_z]

\* C20: get_tile_extent(x, y, z) returns None exactly when z < 0, or x is
\* outside [0, nx0 * 2^z), or y is outside [0, ny0 * 2^z); otherwise it
\* returns cell (x, y) of the division of the map extent into nx0 * 2^z by
\* ny0 * 2^z equal cells with row 0 at the top, so that the tiles of a level
\* do not overlap and together cover exactly the map extent.
TileExtentIsCell ==
    frame.op = "get_tile_extent" =>
        LET t == Tile
            ext == map_extent(Receiver)
            cell_width == RDiv(RSub(ext[3], ext[1]), RInt(t.nx))
            cell_height == RDiv(RSub(ext[4], ext[2]), RInt(t.ny))
            right == get_tile_extent(Receiver, t.x + 1, t.y, t.z)
            below == get_tile_extent(Receiver, t.x, t.y + 1, t.z)
        IN  /\ IsOk(last)
            /\ (last.val = None) <=>
                   (t.z < 0 \/ t.x < 0 \/ t.x >= t.nx \/ t.y < 0 \/ t.y >= t.ny)
            /\ last.val # None =>
                /\ last.val[1] = RAdd(ext[1], RMul(RInt(t.x), cell_width))
                /\ last.val[4] = RSub(ext[4], RMul(RInt(t.y), cell_height))
                /\ RSub(last.val[3], last.val[1]) = cell_width
                /\ RSub(last.val[4], last.val[2]) = cell_height
                /\ IF t.x = t.nx - 1 THEN right = None /\ last.val[3] = ext[3]
                   ELSE right # None /\ right[1] = last.val[3]
                /\ IF t.y = t.ny - 1 THEN below = None /\ last.val[2] = ext[2]
                   ELSE below # None /\ below[4] = last.val[2]
                /\ t.x = 0 => last.val[1] = ext[1]
                /\ t.y = 0 => last.val[4] = ext[4]

\* The extent of a tile that is neither in the first nor in the last row
\* and column of its level.
InnerTileExtent ==
    /\ frame.op = "get_tile_extent" /\ IsOk(last) /\ last.val # None
    /\ Tile.x > 0 /\ Tile.x < Tile.nx - 1
    /\ Tile.y > 0 /\ Tile.y < Tile.ny - 1
    /\ Tile.nx # Tile.ny


\* The call of get_resolutions_level: its arguments, the pixel size of a
\* tile of the level in the unit of the dataset, and the distance of the
\* pixel size from the resolution of dataset level k (counted from 0).
LevelCall ==
    LET unit_name == frame.args[3]
        unit_factor ==
            IF _is_degree_unit(unit_name) = (map_unit_name(Receiver) = "degree")
            THEN RInt(1)
            ELSE IF _is_degree_unit(unit_name)
            THEN RDiv(RInt(360), EARTH_CIRCUMFERENCE_WGS84)
            ELSE RDiv(EARTH_CIRCUMFERENCE_WGS84, RInt(360))
    IN  [level |-> frame.args[1], resolutions |-> frame.args[2],
         n |-> Len(frame.args[2]),
         unit_supported |-> _is_degree_unit(unit_name) \/ _is_meter_unit(unit_name),
         pix |-> RDiv(RMul(RDiv(Receiver.map_height, RInt(Receiver.tile_size)),
                           unit_factor),
                      RInt(IF frame.args[1] < 0 THEN 1 ELSE 2 ^ frame.args[1]))]

Increasing(resolutions) ==
    \A k \in 1..(Len(resolutions) - 1) : RLeq(resolutions[k], resolutions[k + 1])

Distance(c, k) == RAbs(RSub(c.pix, c.resolutions[k + 1]))

\* C21: For a level >= 0 and a non-empty, increasing sequence of resolutions
\* get_resolutions_level returns an index of the sequence: 0 if the pixel
\* size of a tile is at or below the first resolution, the last index if it
\* is at or above the last, otherwise the nearer of two neighbouring
\* dataset levels that bracket the pixel size, the higher one at the exact
\* midpoint.  It never raises RuntimeError and never divides by zero.
ResolutionsLevelIsNearest ==
    frame.op = "get_resolutions_level" =>
        LET c == LevelCall
        IN  /\ last.exc \notin {"RuntimeError", "ZeroDivisionError"}
            /\ (c.level >= 0 /\ c.n > 0 /\ c.unit_supported
                    /\ Increasing(c.resolutions)) =>
                /\ IsOk(last)
                /\ last.val \in 0..(c.n - 1)
                /\ IF RLeq(c.pix, c.resolutions[1]) THEN last.val = 0
                   ELSE IF RLeq(c.resolutions[c.n], c.pix) THEN last.val = c.n - 1
                   ELSE \E k \in 0..(c.n - 2) :
                          /\ RLeq(c.resolutions[k + 1], c.pix)
                          /\ RLeq(c.pix, c.resolutions[k + 2])
                          /\ \/ /\ last.val = k
                                /\ RLtq(Distance(c, k), Distance(c, k + 1))
                             \/ /\ last.val = k + 1
                                /\ RLeq(Distance(c, k + 1), Distance(c, k))

\* The pixel size is exactly half-way between the resolutions of two
\* dataset levels, neither the first nor the last being returned by the
\* range tests, and the higher level is returned.
ResolutionsLevelAtMidpoint ==
    /\ frame.op = "get_resolutions_level" /\ IsOk(last)
    /\ LevelCall.level > 0 /\ LevelCall.n = 3
    /\ Increasing(LevelCall.resolutions)
    /\ last.val = 1
    /\ RLtq(LevelCall.resolutions[1], LevelCall.pix)
    /\ RLtq(LevelCall.pix, LevelCall.resolutions[3])
    /\ Distance(LevelCall, 0) = Distance(LevelCall, 1)
    /\ Distance(LevelCall, 0) # RInt(0)


---------------------------------------------------------------------------
(* server/server.py: Server.load_apis.                                     *)

MaxApis == 3

ApiNames == 1..MaxApis

\* Api(name, required_apis=..., optional_apis=...)
Api(name, required_apis, optional_apis) ==
    [name |-> name, required_apis |-> required_apis, optional_apis |-> optional_apis]

\* The value of a key of api_spec: given with a list of names, or missing.
Given(names) == [given |-> TRUE, names |-> names]
Missing == [given |-> FALSE, names |-> {}]

\* api_spec.get(key, default)
api_spec_get(value, default) == IF value.given THEN value.names ELSE default

\* [ext.component for ext in api_extensions if ext.name in api_names]
RECURSIVE effective_apis(_, _)
effective_apis(api_extensions, api_names) ==
    IF api_extensions = <<>> THEN <<>>
    ELSE (IF Head(api_extensions).name \in api_names
          THEN <<Head(api_extensions)>> ELSE <<>>)
         \o effective_apis(Tail(api_extensions), api_names)

\* {api.name: api for api in apis}
api_lookup_of(apis) ==
    [n \in {apis[i].name : i \in DOMAIN apis} |->
        apis[CHOOSE i \in DOMAIN apis : apis[i].name = n]]

\* assert_required_apis_available: the APIs that miss a required one.
missing_required_apis(apis, api_lookup) ==
    { i \in DOMAIN apis : ~(apis[i].required_apis \subseteq DOMAIN api_lookup) }

RECURSIVE count_api_refs(_, _)
RECURSIVE count_refs_of(_, _)
RECURSIVE sorted(_, _)

\* The two loops of count_api_refs: the sum over the referenced names of
\* count_api_refs(api_lookup[name]) + 1.
count_refs_of(api_lookup, names) ==
    IF names = {} THEN 0
    ELSE LET n == CHOOSE n \in names : TRUE
         IN  count_api_refs(api_lookup, api_lookup[n]) + 1
                 + count_refs_of(api_lookup, names \ {n})

count_api_refs_required_only(api_lookup, api) ==
    count_refs_of(api_lookup, api.required_apis)

\* count_api_refs(api)
count_api_refs(api_lookup, api) ==
    count_refs_of(api_lookup, api.required_apis)
        + count_refs_of(api_lookup, api.optional_apis \cap DOMAIN api_lookup)

\* sorted(apis, key=...): ascending by key, equal keys in their old order.
sorted(apis, key) ==
    IF apis = <<>> THEN <<>>
    ELSE LET least == SetMin({ key[apis[i].name] : i \in DOMAIN apis })
             first == SetMin({ i \in DOMAIN apis : key[apis[i].name] = least })
         IN  <<apis[first]>>
                 \o sorted([i \in 1..(Len(apis) - 1) |->
                               IF i < first THEN apis[i] ELSE apis[i + 1]], key)

\* Server.load_apis(config, extension_registry)
load_apis(config, api_extensions) ==
    LET incl_api_names ==
            api_spec_get(config.includes,
                         { api_extensions[i].name : i \in DOMAIN api_extensions })
        excl_api_names == api_spec_get(config.excludes, {})
        api_names == incl_api_names \ excl_api_names
        apis == effective_apis(api_extensions, api_names)
        api_lookup == api_lookup_of(apis)
        api_ref_counts ==
            [n \in DOMAIN api_lookup |-> count_api_refs(api_lookup, api_lookup[n])]
    IN  IF missing_required_apis(apis, api_lookup) # {}
        THEN Raise("ValueError", <<"missing API dependency">>)
        ELSE Ok(sorted(apis, api_ref_counts))

\* The APIs of a name that refer to APIs of lower name only, each as
\* required or as optional.
ApisNamed(name) ==
    UNION { { Api(name, required_apis, optional_apis) :
                  optional_apis \in SUBSET ((1..(name - 1)) \ required_apis) } :
            required_apis \in SUBSET (1..(name - 1)) }

\* The acyclic dependency graphs over the first n names (every acyclic
\* graph is one of these after renaming), as the list of their APIs.
RECURSIVE ApiGraphs(_)
ApiGraphs(n) ==
    IF n = 0 THEN {<<>>}
    ELSE { Append(g, api) : g \in ApiGraphs(n - 1), api \in ApisNamed(n) }

\* The orders in which the APIs can be registered.
RegistrationOrders ==
    { p \in [ApiNames -> ApiNames] : \A a, b \in ApiNames : p[a] = p[b] => a = b }

\* Configurations: api_spec missing, with includes, or with excludes.
ApiSpecs ==
    { [includes |-> Missing, excludes |-> Missing] }
        \cup { [includes |-> Given(names), excludes |-> Missing] :
                   names \in SUBSET ApiNames }
        \cup { [includes |-> Missing, excludes |-> Given(names)] :
                   names \in SUBSET ApiNames }
        \cup { [includes |-> Given(ApiNames \ {1}), excludes |-> Given({MaxApis})] }

\* The extension registry with the APIs registered in some order.
InitApis ==
    /\ \E g \in ApiGraphs(MaxApis), p \in RegistrationOrders :
           heap = << [i \in ApiNames |-> g[p[i]]] >>
    /\ born = <<[how |-> "ExtensionRegistry"]>>
    /\ locks = [l \in 1..MaxObjects |-> [owner |-> 0, count |-> 0]]
    /\ pc = [t \in Threads |-> "idle"]
    /\ frame = Call("", 0, 0, None)
    /\ new_calls = [o \in 1..MaxObjects |-> 0]
    /\ reads = [o \in 1..MaxObjects |-> {}]
    /\ next_array = 1
    /\ calls = 0
    /\ last = NoLast

\* Server.load_apis(config, extension_registry=heap[o])
LoadApis(o, config) ==
    /\ Idle
    /\ frame' = Call("load_apis", o, 0, config)
    /\ Answers(load_apis(config, heap[o]))

NextApis ==
    \/ \E o \in Objects, config \in ApiSpecs : LoadApis(o, config)
    \/ Forget

SpecApis == InitApis /\ [][NextApis]_vars

\* The names the configuration of the call selects.
SelectedApis ==
    (IF frame.args.includes.given THEN frame.args.includes.names ELSE ApiNames)
        \ (IF frame.args.excludes.given THEN frame.args.excludes.names ELSE {})

\* The position of the API of the given name in the result of the call.
PositionOf(n) == CHOOSE i \in DOMAIN last.val : last.val[i].name = n

\* C22: load_apis returns the selected APIs in dependency order, whatever
\* the registration order and the acyclic dependency graph: every API comes
\* after each API it requires and after each selected API it names as
\* optional.  It raises ValueError exactly if a selected API requires one
\* that is not selected.
ApisInDependencyOrder ==
    frame.op = "load_apis" =>
        LET registered == { Receiver[i] : i \in DOMAIN Receiver }
            selected == { api \in registered : api.name \in SelectedApis }
        IN  IF \E api \in selected : ~(api.required_apis \subseteq SelectedApis)
            THEN ~IsOk(last) /\ last.exc = "ValueError"
            ELSE /\ IsOk(last)
                 /\ Len(last.val) = Cardinality(selected)
                 /\ { last.val[i] : i \in DOMAIN last.val } = selected
                 /\ \A i \in DOMAIN last.val :
                        \A n \in (last.val[i].required_apis
                                    \cup (last.val[i].optional_apis \cap SelectedApis)) :
                            PositionOf(n) < i

\* All APIs are selected, the last one registered is returned first, and
\* one API comes after another only because it names it as optional.
ApisReorderedByOptional ==
    /\ frame.op = "load_apis" /\ IsOk(last)
    /\ Len(last.val) = MaxApis
    /\ last.val[1] = Receiver[MaxApis]
    /\ \E i \in DOMAIN last.val :
          /\ last.val[i].required_apis = {}
          /\ last.val[i].optional_apis # {}
          /\ \E j \in DOMAIN Receiver : j < PositionOf(Receiver[j].name)
                 /\ Receiver[j].name = last.val[i].name


---------------------------------------------------------------------------
(* server/server.py: Server.update, ServerContext.on_update, Server.stop.  *)
(* The heap holds the server (object 1), its server contexts and their API *)
(* contexts; an absent object is 0.  A step of update is one call into an  *)
(* API's code or one assignment of the server's context.                   *)

MaxUpdates == 2

\* The APIs of the server of test_update_is_effective: "timeseries" (2)
\* requires "datasets" (1) and is registered first.
ServerApis == load_apis([includes |-> Missing, excludes |-> Missing],
                        <<Api(2, {1}, {}), Api(1, {}, {})>>).val

ServerApiNames == { ServerApis[i].name : i \in DOMAIN ServerApis }

\* A configuration: the port ("" if not given, "invalid" if not a number)
\* and whether a setting without schema is present.
ServerConfigs == [port : {"", "8080", "9090", "invalid"}, unknown : BOOLEAN]

\* config_schema.from_instance(config) after the settings without schema
\* have been dropped: the defaults are filled in.
validated_config(config) ==
    [address |-> "0.0.0.0", port |-> IF config.port = "" THEN "8080" ELSE config.port]

\* ServerContext(server, config)
ServerContext(config) ==
    [cls |-> "ServerContext", config |-> config,
     api_contexts |-> [n \in ServerApiNames |-> 0]]

\* Server._new_ctx(config)
_new_ctx(config) ==
    IF config.port = "invalid"
    THEN Raise("ValueError", <<"Invalid server configuration">>)
    ELSE Ok(ServerContext(validated_config(config)))

\* api.create_ctx(server_ctx): a new API context
ApiContext(api_name, server_ctx) ==
    [cls |-> "ApiContext", api |-> api_name, server_ctx |-> server_ctx,
     on_update_args |-> <<>>, on_dispose_count |-> 0]

\* ServerContext.get_api_ctx(api_name)
get_api_ctx(ctx, api_name) == ctx.api_contexts[api_name]

\* ServerContext._set_api_ctx(api_name, api_ctx)
_set_api_ctx(h, ctx, api_name, api_ctx) ==
    [h EXCEPT ![ctx].api_contexts[api_name] = api_ctx]

\* api_ctx.on_update(prev_api_ctx), counted as MockApiContext counts it
api_on_update(h, api_ctx, prev) ==
    [h EXCEPT ![api_ctx].on_update_args = Append(@, prev)]

\* api_ctx.on_dispose()
api_on_dispose(h, api_ctx) ==
    [h EXCEPT ![api_ctx].on_dispose_count = @ + 1]

prev_api_ctx_none(h, prev_ctx, api_name) == 0

\* ServerContext.on_update: prev_api_ctx of an API
prev_api_ctx(h, prev_ctx, api_name) ==
    IF prev_ctx = 0 THEN 0 ELSE get_api_ctx(h[prev_ctx], api_name)

\* ServerContext.on_dispose: the API contexts are disposed in reverse order.
RECURSIVE on_dispose(_, _, _)
on_dispose(h, ctx, i) ==
    IF i = 0 THEN h
    ELSE LET api_ctx == get_api_ctx(h[ctx], ServerApis[i].name)
         IN  on_dispose(IF api_ctx # 0 THEN api_on_dispose(h, api_ctx) ELSE h,
                        ctx, i - 1)

\* Server(MockFramework(), {}, extension_registry): the server, its first
\* server context and the API contexts made by ctx.on_update(None).
InitServer ==
    /\ heap = << [cls |-> "Server", ctx |-> 2, framework_ctx |-> 2, stopped |-> FALSE],
                 [ServerContext(validated_config([port |-> "", unknown |-> FALSE]))
                      EXCEPT !.api_contexts = [n \in ServerApiNames |-> 2 + n]],
                 [ApiContext(1, 2) EXCEPT !.on_update_args = <<0>>],
                 [ApiContext(2, 2) EXCEPT !.on_update_args = <<0>>] >>
    /\ born = <<[how |-> "Server"]>>
    /\ locks = [l \in 1..MaxObjects |-> [owner |-> 0, count |-> 0]]
    /\ pc = [t \in Threads |-> "idle"]
    /\ frame = Call("", 0, 0, None)
    /\ new_calls = [o \in 1..MaxObjects |-> 0]
    /\ reads = [o \in 1..MaxObjects |-> {}]
    /\ next_array = 1
    /\ calls = 0
    /\ last = NoLast

\* How often the API contexts of a server context have been disposed.
DisposeCounts(ctx) ==
    [n \in ServerApiNames |-> heap[get_api_ctx(heap[ctx], n)].on_dispose_count]

\* The position of update: the new and the previous server context, the
\* API the loop of on_update is at, and the statement to run next; also,
\* for the record, the dispose counts of the previous API contexts when
\* update was called.
UpdateAt(config, ctx, prev_ctx, api, at, next_api_ctx) ==
    Call("update", ctx, prev_ctx,
         [config |-> config, api |-> api, at |-> at, next_api_ctx |-> next_api_ctx,
          disposed_before |-> DisposeCounts(prev_ctx)])

RunningUpdate(at) == frame.op = "update" /\ frame.args.at = at

ServerSteps(h, f, out) ==
    /\ heap' = h
    /\ frame' = f
    /\ last' = out
    /\ UNCHANGED <<born, locks, pc, new_calls, reads, next_array>>

\* The loop of on_update goes to the next API, or on_update returns.
NextApiAt(f) ==
    IF f.args.api < Len(ServerApis)
    THEN [f EXCEPT !.args.api = @ + 1, !.args.at = "create_ctx", !.args.next_api_ctx = 0]
    ELSE [f EXCEPT !.args.at = "_set_ctx"]

\* server.update(config): ctx = self._new_ctx(config)
UpdateNewCtx(config) ==
    /\ Idle
    /\ ~heap[1].stopped
    /\ calls < MaxUpdates
    /\ calls' = calls + 1
    /\ LET ctx == _new_ctx(config)
       IN  IF IsOk(ctx)
           THEN ServerSteps(Append(heap, ctx.val),
                            UpdateAt(config, Len(heap) + 1, heap[1].ctx, 1,
                                     "create_ctx", 0),
                            NoLast)
           ELSE ServerSteps(heap, UpdateAt(config, 0, heap[1].ctx, 0, "raised", 0), ctx)

\* ctx.on_update(prev_ctx): next_api_ctx = api.create_ctx(self) and
\* self._set_api_ctx(api.name, next_api_ctx); the API's code may raise.
UpdateCreateCtx(raises) ==
    /\ RunningUpdate("create_ctx")
    /\ UNCHANGED calls
    /\ LET api == ServerApis[frame.args.api]
           next_api_ctx == Len(heap) + 1
       IN  IF \E dep \in api.required_apis : get_api_ctx(heap[frame.obj], dep) = 0
           THEN ServerSteps(heap, [frame EXCEPT !.args.at = "raised"],
                            Raise("AssertionError", <<>>))
           ELSE IF raises
           THEN ServerSteps(heap, [frame EXCEPT !.args.at = "raised"],
                            Raise("Exception", <<"create_ctx">>))
           ELSE ServerSteps(_set_api_ctx(Append(heap, ApiContext(api.name, frame.obj)),
                                         frame.obj, api.name, next_api_ctx),
                            [frame EXCEPT !.args.at = "on_update",
                                          !.args.next_api_ctx = next_api_ctx],
                            NoLast)

\* next_api_ctx.on_update(prev_api_ctx); the API's code may raise.
UpdateApiOnUpdate(raises) ==
    /\ RunningUpdate("on_update")
    /\ UNCHANGED calls
    /\ LET api == ServerApis[frame.args.api]
           prev == prev_api_ctx(heap, frame.other, api.name)
           h == api_on_update(heap, frame.args.next_api_ctx, prev)
       IN  IF raises
           THEN ServerSteps(h, [frame EXCEPT !.args.at = "raised"],
                            Raise("Exception", <<"on_update">>))
           ELSE IF prev # 0 /\ prev # frame.args.next_api_ctx
           THEN ServerSteps(h, [frame EXCEPT !.args.at = "on_dispose"], NoLast)
           ELSE ServerSteps(h, NextApiAt(frame), NoLast)

\* prev_api_ctx.on_dispose()
UpdateDisposePrev ==
    /\ RunningUpdate("on_dispose")
    /\ UNCHANGED calls
    /\ LET api == ServerApis[frame.args.api]
           prev == prev_api_ctx(heap, frame.other, api.name)
       IN  ServerSteps(api_on_dispose(heap, prev), NextApiAt(frame), NoLast)

\* self._set_ctx(ctx): self._ctx = ctx and self._framework.update(ctx)
UpdateSetCtx ==
    /\ RunningUpdate("_set_ctx")
    /\ UNCHANGED calls
    /\ ServerSteps([heap EXCEPT ![1].ctx = frame.obj, ![1].framework_ctx = frame.obj],
                   [frame EXCEPT !.args.at = "returned"], Ok(None))

\* server.stop()
Stop ==
    /\ Idle
    /\ ~heap[1].stopped
    /\ UNCHANGED calls
    /\ ServerSteps([on_dispose(heap, heap[1].ctx, Len(ServerApis))
                       EXCEPT ![1].stopped = TRUE],
                   Call("stop", heap[1].ctx, 0, None), Ok(None))

\* The caller of update or stop goes on after the call has returned or raised.
ForgetServer ==
    /\ \/ RunningUpdate("returned")
       \/ RunningUpdate("raised")
       \/ frame.op = "stop"
    /\ UNCHANGED calls
    /\ ServerSteps(heap, Call("", 0, 0, None), NoLast)

NextServer ==
    \/ \E config \in ServerConfigs : UpdateNewCtx(config)
    \/ \E raises \in BOOLEAN : UpdateCreateCtx(raises)
    \/ \E raises \in BOOLEAN : UpdateApiOnUpdate(raises)
    \/ UpdateDisposePrev
    \/ UpdateSetCtx
    \/ Stop
    \/ ForgetServer

SpecServer == InitServer /\ [][NextServer]_vars

---------------------------------------------------------------------------
(* Properties of Server.update.                                            *)

ApiContexts == { o \in DOMAIN heap : heap[o].cls = "ApiContext" }

\* The API contexts of a server context.
ApiContextsOf(ctx) ==
    { heap[ctx].api_contexts[n] : n \in ServerApiNames } \ {0}

\* C23: When update(config) with a valid configuration returns, server.ctx
\* is a new ServerContext that holds the (validated) new configuration; for
\* every API it has a new API context whose on_update has been called once,
\* with the previous API context, and the previous API context has been
\* disposed exactly once and has not had on_update called again.  At every
\* moment, a previous API context is disposed only after on_update of its
\* successor has been called with it.  (Counted within the one call of
\* update: DisposeCounts holds what earlier calls have done.)
UpdateReplacesContexts ==
    /\ RunningUpdate("returned") =>
          /\ IsOk(last)
          /\ heap[1].ctx = frame.obj /\ heap[1].framework_ctx = frame.obj
          /\ frame.obj # frame.other
          /\ heap[frame.obj].cls = "ServerContext"
          /\ heap[frame.obj].config.address = "0.0.0.0"
          /\ heap[frame.obj].config.port
                 = (IF frame.args.config.port = "" THEN "8080"
                    ELSE frame.args.config.port)
          /\ \A n \in ServerApiNames :
                LET new == heap[frame.obj].api_contexts[n]
                    old == heap[frame.other].api_contexts[n]
                IN  /\ new # 0 /\ old # 0 /\ new # old
                    /\ heap[new].api = n /\ heap[new].server_ctx = frame.obj
                    /\ heap[new].on_update_args = <<old>>
                    /\ heap[new].on_dispose_count = 0
                    /\ heap[old].on_dispose_count = frame.args.disposed_before[n] + 1
                    /\ Len(heap[old].on_update_args) = 1
    /\ frame.op = "update" =>
          \A n \in ServerApiNames :
              LET old == heap[frame.other].api_contexts[n]
                  before == frame.args.disposed_before[n]
              IN  /\ heap[old].on_dispose_count \in {before, before + 1}
                  /\ heap[old].on_dispose_count = before + 1 =>
                         /\ frame.obj # 0
                         /\ heap[frame.obj].api_contexts[n] # 0
                         /\ heap[heap[frame.obj].api_contexts[n]].on_update_args
                                = <<old>>

\* The second update in a row has returned.
SecondUpdateReturned ==
    /\ RunningUpdate("returned") /\ IsOk(last)
    /\ calls = 2
    /\ frame.other # 2
    /\ heap[heap[1].ctx].config.port = "9090"

\* C26: Until stop(), no API context of the server's current context, the
\* one handed to request handlers and to the framework, has been disposed.
CurrentContextNotDisposed ==
    ~heap[1].stopped =>
        \A o \in ApiContextsOf(heap[1].ctx) \cup ApiContextsOf(heap[1].framework_ctx) :
            heap[o].on_dispose_count = 0


---------------------------------------------------------------------------
(* Properties of the branches of resample_in_space.                        *)

\* resample_in_space was given a target and has come to the branch that
\* downscales a source that is not regular before rectifying it.
DownscaleBranch ==
    /\ Resampled /\ ~SourceIsClose
    /\ ~IsTrue(SourceGm.is_regular) /\ IsTrue(TargetGm.is_regular)
    /\ \/ is_geographic(SourceGm.crs) /\ is_geographic(TargetGm.crs)
       \/ SourceGm.crs = TargetGm.crs
    /\ \/ RLe(RDiv(x_res(SourceGm), x_res(TargetGm)), _SCALE_LIMIT)
       \/ RLe(RDiv(y_res(SourceGm), y_res(TargetGm)), _SCALE_LIMIT)
    /\ IsOk(last) /\ last.val # None
    /\ last.val.steps[1].op = "resample_dataset"

\* C24: In the downscale-then-rectify branch the intermediate dataset is a
\* downsampled version of the whole source: its size is round(scale * source
\* size) per axis, and the index mapping handed to resample_dataset sends
\* the index range of the intermediate dataset onto the full index range of
\* the source, one intermediate pixel standing for 1/scale source pixels.
DownscaledCoversSource ==
    DownscaleBranch =>
        LET x_scale == RDiv(x_res(SourceGm), x_res(TargetGm))
            y_scale == RDiv(y_res(SourceGm), y_res(TargetGm))
            call == last.val.steps[1]
            i_scale == call.matrix[1][1]
            j_scale == call.matrix[2][2]
        IN  /\ call.size[1] = RRound(RMul(x_scale, RInt(width(SourceGm))))
            /\ call.size[2] = RRound(RMul(y_scale, RInt(height(SourceGm))))
            /\ call.matrix[1][3] = RInt(0) /\ call.matrix[2][3] = RInt(0)
            /\ RLe(RAbs(RSub(RMul(i_scale, RInt(call.size[1])), RInt(width(SourceGm)))),
                   i_scale)
            /\ RLe(RAbs(RSub(RMul(j_scale, RInt(call.size[2])), RInt(height(SourceGm)))),
                   j_scale)


\* The steps of a dataset that add the reprojected coordinates of the
\* source: one for every entry into the branch that transforms the CRS.
ReprojectionSteps(dataset) ==
    { i \in DOMAIN dataset.steps :
          /\ dataset.steps[i].op = "assign"
          /\ dataset.steps[i].vars = <<"transformed_x", "transformed_y">> }

\* The steps of the branches that do not transform the CRS: none (the grid
\* mappings are close), an affine transformation, a rectification, or a
\* downscaling and a rectification.
SameCrsSteps(steps) ==
    \/ steps = <<>>
    \/ Len(steps) = 2 /\ steps[1].op = "resample_dataset"
                      /\ steps[2].op \in {"assign_coords", "rectify_dataset"}
    \/ Len(steps) = 1 /\ steps[1].op = "rectify_dataset"

\* The steps but the first and, if it adds the variable "crs", the last.
InnerSteps(steps) ==
    LET n == IF steps[Len(steps)].op = "assign" /\ steps[Len(steps)].vars = <<"crs">>
             THEN Len(steps) - 1 ELSE Len(steps)
    IN  SubSeq(steps, 2, n)

\* resample_in_space comes to the branch that transforms the CRS.
DifferentCrs ==
    /\ Resampled /\ ~SourceIsClose /\ IsTrue(TargetGm.is_regular)
    /\ SourceGm.crs # TargetGm.crs
    /\ ~(is_geographic(SourceGm.crs) /\ is_geographic(TargetGm.crs))

\* C25: When the CRSs of source and target differ and are not both
\* geographic, resample_in_space recurses exactly once: the dataset it
\* returns has had the reprojected coordinates added once, and the steps
\* that follow are those of the no-op, affine or rectification branch.  In
\* every other case it does not recurse.  (Every call is evaluated to its
\* end: resample_in_space terminates.)
ReprojectionRecursesOnce ==
    (frame.op = "resample_in_space" /\ IsOk(last) /\ last.val # None) =>
        IF DifferentCrs
        THEN /\ ReprojectionSteps(last.val) = {1}
             /\ SameCrsSteps(InnerSteps(last.val.steps))
             /\ is_geographic(TargetGm.crs)
                    <=> InnerSteps(last.val.steps) = Tail(last.val.steps)
        ELSE /\ ReprojectionSteps(last.val) = {}
             /\ SameCrsSteps(last.val.steps)

\* A dataset reprojected to a target that is not geographic and rectified.
ReprojectedAndRectified ==
    /\ DifferentCrs /\ IsOk(last) /\ last.val # None
    /\ ~is_geographic(TargetGm.crs)
    /\ Len(last.val.steps) = 3
    /\ last.val.steps[2].op = "rectify_dataset"
    /\ last.val.steps[3].op = "assign"

---------------------------------------------------------------------------
(* webapi/datasets/context.py: DatasetsContext._get_dataset_entry, called  *)
(* by get_ml_dataset and get_dataset from the threads of the executor.     *)
(* The heap holds the one DatasetsContext; its _dataset_cache is a dict,   *)
(* a function whose domain is the set of cached dataset identifiers.  A    *)
(* MultiLevelDataset is known by its identity, the number it was opened    *)
(* with.  rlock is the threading.RLock of the API context (lock 1).        *)

DatasetIds == {"demo", "demo-1w"}

DatasetsContext == [cls |-> "DatasetsContext", rlock |-> 1, _dataset_cache |-> <<>>]

\* "self._dataset_cache[ml_dataset.ds_id] = ml_dataset, dataset_config"
_set_dataset_entry(ctx, dataset_entry) ==
    [ctx EXCEPT !._dataset_cache =
        [d \in DOMAIN @ \cup {dataset_entry[2].Identifier} |->
            IF d = dataset_entry[2].Identifier THEN dataset_entry ELSE @[d]]]

\* _create_dataset_entry: the configuration of ds_id and the dataset opened
\* from it, a new MultiLevelDataset object with ds_id set.
_create_dataset_entry(ds_id, ml_dataset) == <<ml_dataset, [Identifier |-> ds_id]>>

InitDatasets ==
    /\ heap = <<DatasetsContext>>
    /\ locks = [l \in 1..MaxObjects |-> [owner |-> 0, count |-> 0]]
    /\ pc = [t \in Threads |-> "idle"]
    /\ frame = [t \in Threads |-> NoFrame]
    /\ new_calls = [d \in DatasetIds |-> 0]
    /\ reads = [d \in DatasetIds |-> {}]
    /\ next_array = 1
    /\ born = <<>>
    /\ calls = 0
    /\ last = NoLast

\* get_ml_dataset(ds_id) or get_dataset(ds_id) enters _get_dataset_entry:
\* "if ds_id not in self._dataset_cache", tested without the lock.
GetDatasetEntryBegin(t, op, ds_id) ==
    /\ pc[t] = "idle"
    /\ calls < MaxCalls
    /\ calls' = calls + 1
    /\ frame' = [frame EXCEPT ![t] = [NoFrame EXCEPT !.op = op, !.obj = 1, !.args = ds_id]]
    /\ Goto(t, IF ds_id \notin DOMAIN heap[1]._dataset_cache
               THEN "ds_lock" ELSE "ds_return")
    /\ UNCHANGED <<heap, locks, new_calls, reads, next_array, born, last>>

\* "with self.rlock:"
GetDatasetEntryLock(t) ==
    /\ pc[t] = "ds_lock"
    /\ CanAcquire(heap[frame[t].obj].rlock, t)
    /\ locks' = Acquired(heap[frame[t].obj].rlock, t)
    /\ Goto(t, "ds_create")
    /\ UNCHANGED <<heap, frame, new_calls, reads, next_array, born, calls, last>>

\* "self._create_dataset_entry(ds_id)": the dataset is opened, or the
\* opening raises (invalid configuration, missing data) and the with block
\* is left with the exception.  new_calls counts the datasets opened.
GetDatasetEntryCreate(t, raises) ==
    /\ pc[t] = "ds_create"
    /\ IF raises
       THEN /\ locks' = Released(heap[frame[t].obj].rlock)
            /\ last' = Raise("ApiError", frame[t].args)
            /\ frame' = [frame EXCEPT ![t] = NoFrame]
            /\ Goto(t, "idle")
            /\ UNCHANGED <<new_calls, next_array>>
       ELSE /\ next_array <= MaxArrays
            /\ frame' = [frame EXCEPT ![t].xy =
                             _create_dataset_entry(frame[t].args, next_array)]
            /\ new_calls' = [new_calls EXCEPT ![frame[t].args] = @ + 1]
            /\ next_array' = next_array + 1
            /\ Goto(t, "ds_set")
            /\ UNCHANGED <<locks, last>>
    /\ UNCHANGED <<heap, reads, born, calls>>

\* "self._set_dataset_entry(...)" and the end of the with block.
GetDatasetEntrySet(t) ==
    /\ pc[t] = "ds_set"
    /\ heap' = [heap EXCEPT ![frame[t].obj] = _set_dataset_entry(@, frame[t].xy)]
    /\ locks' = Released(heap[frame[t].obj].rlock)
    /\ Goto(t, "ds_return")
    /\ UNCHANGED <<frame, new_calls, reads, next_array, born, calls, last>>

\* "return self._dataset_cache[ds_id]"; the caller takes the first element,
\* the MultiLevelDataset.  reads collects what the callers have received.
GetDatasetEntryReturn(t) ==
    /\ pc[t] = "ds_return"
    /\ reads' = [reads EXCEPT ![frame[t].args] =
                    @ \cup {heap[frame[t].obj]._dataset_cache[frame[t].args][1]}]
    /\ last' = Ok(heap[frame[t].obj]._dataset_cache[frame[t].args][1])
    /\ frame' = [frame EXCEPT ![t] = NoFrame]
    /\ Goto(t, "idle")
    /\ UNCHANGED <<heap, locks, new_calls, next_array, born, calls>>

NextDatasets ==
    \/ \E t \in Threads, op \in {"get_ml_dataset", "get_dataset"}, ds_id \in DatasetIds :
           GetDatasetEntryBegin(t, op, ds_id)
    \/ \E t \in Threads : GetDatasetEntryLock(t)
    \/ \E t \in Threads, raises \in BOOLEAN : GetDatasetEntryCreate(t, raises)
    \/ \E t \in Threads : GetDatasetEntrySet(t)
    \/ \E t \in Threads : GetDatasetEntryReturn(t)

SpecDatasets == InitDatasets /\ [][NextDatasets]_vars

\* C27: whatever the interleaving of the threads that ask one
\* DatasetsContext for datasets, each dataset identifier is opened at most
\* once and all callers of one identifier receive the same MultiLevelDataset.
DatasetOpenedOnce ==
    \A d \in DatasetIds :
        /\ new_calls[d] <= 1
        /\ Cardinality(reads[d]) <= 1

---------------------------------------------------------------------------
(* Properties of the coordinates of derived grid mappings.                 *)

\* C28: the coordinates that a grid mapping made by derive holds, and so
\* returns from xy_coords, are those that _new_xy_coords computes from its own
\* fields: the same dimension names, shape, x and y ranges in row order, and
\* chunks; whether or not the receiver's coordinates had been read before.
DerivedCoordsAreOwn ==
    \A o \in Objects :
        (born[o].how = "derive" /\ heap[o].xy_coords # None)
            => heap[o].xy_coords = _new_xy_coords(heap[o], heap[o].xy_coords.id)

---------------------------------------------------------------------------
(* Properties of the shapes and chunks in resample_ndimage.                *)

\* The sizes of the chunks of an axis of length n cut into chunks of size c:
\* c for the full chunks and the rest for the last one.
ChunkSizes(n, c) ==
    (IF n >= c THEN {c} ELSE {}) \cup (IF n % c # 0 THEN {n % c} ELSE {})

Downsampling ==
    downsampling(Receiver, born[frame.obj].chunks, frame.args.scale, frame.args.offset,
                 frame.args.shape, frame.args.spline_order, frame.args.recover_nan)

\* C30: resample_ndimage returns an image of the shape asked for (the shape
\* argument, or the image's shape times the scale, rounded up, without it); in
\* the downsampling path the array that is coarsened has divisor times that
\* shape on both axes and chunks whose sizes are multiples of the divisors, and
\* its coarsening has the shape asked for, so that nothing is cropped.
ResampledShapeIsExact ==
    (frame.op = "resample_ndimage" /\ IsOk(last) /\ last # NoLast) =>
        /\ last.val.shape = ResampleCall.shape
        /\ ResampleCall.down =>
              LET d == Downsampling
              IN  /\ d.image.shape = << ResampleCall.dy * ResampleCall.shape[1],
                                        ResampleCall.dx * ResampleCall.shape[2] >>
                  /\ \A c \in ChunkSizes(d.image.shape[1], d.chunks[1]) :
                         c % ResampleCall.dy = 0
                  /\ \A c \in ChunkSizes(d.image.shape[2], d.chunks[2]) :
                         c % ResampleCall.dx = 0
                  /\ d.coarse.shape = ResampleCall.shape

---------------------------------------------------------------------------
(* resampling/affine.py: resample_dataset on the variables of a dataset.   *)
(* A dataset is its coordinate variables, its data variables (functions    *)
(* from names to variables) and its attributes; a variable is its          *)
(* dimension names, shape, attributes, kind of values and data.  The data  *)
(* of a variable of the source is known by the variable's name; resampled  *)
(* data is the call of resample_ndimage that makes it.                     *)

Variable(name, dims, shape, attrs, dtype) ==
    [dims |-> dims, shape |-> shape, attrs |-> attrs, dtype |-> dtype,
     data |-> [op |-> "source", of |-> name]]

\* dict.get(key, default)
dict_get(d, key, default) == IF key \in DOMAIN d THEN d[key] ELSE default

\* dataset.variables: the coordinate and the data variables by name.
variables(dataset) ==
    [k \in DOMAIN dataset.coords \cup DOMAIN dataset.data_vars |->
        IF k \in DOMAIN dataset.coords THEN dataset.coords[k]
        ELSE dataset.data_vars[k]]

\* "var.ndim >= 2 and var.dims[-2:] == yx_dims"
has_yx_dims(var, yx_dims) ==
    /\ Len(var.dims) >= 2
    /\ SubSeq(var.dims, Len(var.dims) - 1, Len(var.dims)) = yx_dims

DimsOf(var) == { var.dims[n] : n \in DOMAIN var.dims }

\* The data that resample_ndimage returns for a variable: an array of the
\* leading dimensions of the image and (height, width).
resampled_data(var, scale_yx, offset, shape, chunks, spline_order, aggregator, recover_nan) ==
    [op |-> "resample_ndimage", image |-> var.data, scale |-> scale_yx,
     offset |-> offset, chunks |-> chunks, spline_order |-> spline_order,
     aggregator |-> aggregator, recover_nan |-> recover_nan,
     shape |-> SubSeq(var.shape, 1, Len(var.shape) - 2) \o shape]

\* The body of the loop of resample_dataset with every variable kept: the
\* variables that are not resampled are copied whatever their dimensions.
new_var_copy_others(k, var, matrix, size, tile_size, xy_dim_names, var_configs) ==
    LET yx_dims == <<xy_dim_names[2], xy_dim_names[1]>>
        var_config == dict_get(var_configs, k, <<>>)
        integral == var.dtype \in {"integer", "bool"}
        var_data ==
            resampled_data(var, <<matrix[2][2], matrix[1][1]>>,
                           <<matrix[2][3], matrix[1][3]>>,
                           <<size[2], size[1]>>, <<tile_size[2], tile_size[1]>>,
                           dict_get(var_config, "spline_order", IF integral THEN 0 ELSE 1),
                           dict_get(var_config, "aggregator",
                                    IF integral THEN "None" ELSE "nanmean"),
                           dict_get(var_config, "recover_nan", ~integral))
    IN  IF has_yx_dims(var, yx_dims)
        THEN [dims |-> var.dims, shape |-> var_data.shape, attrs |-> var.attrs,
              dtype |-> var.dtype, data |-> var_data]
        ELSE var

\* The body of the loop of resample_dataset: new_var for the variable var of
\* name k, None if the variable is not taken over.
new_var(k, var, matrix, size, tile_size, xy_dim_names, var_configs) ==
    LET x_dim == xy_dim_names[1]
        y_dim == xy_dim_names[2]
        yx_dims == <<y_dim, x_dim>>
        var_config == dict_get(var_configs, k, <<>>)
        integral == var.dtype \in {"integer", "bool"}
        var_data ==
            resampled_data(var, <<matrix[2][2], matrix[1][1]>>,
                           <<matrix[2][3], matrix[1][3]>>,
                           <<size[2], size[1]>>, <<tile_size[2], tile_size[1]>>,
                           dict_get(var_config, "spline_order", IF integral THEN 0 ELSE 1),
                           dict_get(var_config, "aggregator",
                                    IF integral THEN "None" ELSE "nanmean"),
                           dict_get(var_config, "recover_nan", ~integral))
    IN  IF has_yx_dims(var, yx_dims)
        THEN [dims |-> var.dims, shape |-> var_data.shape, attrs |-> var.attrs,
              dtype |-> var.dtype, data |-> var_data]
        ELSE IF x_dim \notin DimsOf(var) /\ y_dim \notin DimsOf(var)
        THEN var
        ELSE None

\* resample_dataset(dataset, matrix, size, tile_size, xy_dim_names,
\* var_configs) on the variables: the new variables go where the variables of
\* the source are, into the coordinates or into the data variables.
resample_dataset_variables(dataset, matrix, size, tile_size, xy_dim_names, var_configs) ==
    LET made(k) == new_var(k, variables(dataset)[k], matrix, size, tile_size,
                           xy_dim_names, var_configs)
        kept(vars_of) == { k \in DOMAIN vars_of : made(k) # None }
    IN  [coords |-> [k \in kept(dataset.coords) |-> made(k)],
         data_vars |-> [k \in kept(dataset.data_vars) |-> made(k)],
         attrs |-> dataset.attrs]

\* The variables that the datasets are made of: the sizes of the dimensions
\* are x 4, y 3, lon 4, lat 3, time 2, band 2 and bnds 2.
CoordPool ==
    [x |-> Variable("x", <<"x">>, <<4>>, "x", "float"),
     y |-> Variable("y", <<"y">>, <<3>>, "y", "float"),
     time |-> Variable("time", <<"time">>, <<2>>, "t", "integer"),
     lon |-> Variable("lon", <<"lat", "lon">>, <<3, 4>>, "lon", "float")]
DataVarPool ==
    [chl |-> Variable("chl", <<"time", "y", "x">>, <<2, 3, 4>>, "mg", "float"),
     mask |-> Variable("mask", <<"y", "x">>, <<3, 4>>, "", "integer"),
     crs |-> Variable("crs", <<>>, <<>>, "wkt", "integer"),
     transposed |-> Variable("transposed", <<"x", "y">>, <<4, 3>>, "", "float"),
     profile |-> Variable("profile", <<"time", "x">>, <<2, 4>>, "m", "float"),
     rgb |-> Variable("rgb", <<"y", "x", "band">>, <<3, 4, 2>>, "", "bool"),
     time_bnds |-> Variable("time_bnds", <<"time", "bnds">>, <<2, 2>>, "", "integer"),
     sst |-> Variable("sst", <<"lat", "lon">>, <<3, 4>>, "K", "float")]

VariableDatasets ==
    { [coords |-> [k \in c |-> CoordPool[k]],
       data_vars |-> [k \in d |-> DataVarPool[k]],
       attrs |-> a] :
          c \in SUBSET DOMAIN CoordPool, d \in SUBSET DOMAIN DataVarPool,
          a \in {"", "title"} }

Matrices ==
    { << <<R(1, 2), RInt(0), RInt(0)>>, <<RInt(0), R(1, 2), RInt(0)>> >>,
      << <<RInt(2), RInt(0), RInt(1)>>, <<RInt(0), RInt(3), R(1, 2)>> >> }
Sizes == { <<8, 6>>, <<2, 1>> }
XYDimNames == { <<"x", "y">>, <<"lon", "lat">> }
VarConfigs ==
    { <<>>,
      [chl |-> [spline_order |-> 0], mask |-> [aggregator |-> "nanmean"]] }

InitVariables ==
    /\ \E dataset \in VariableDatasets : heap = <<dataset>>
    /\ born = <<[how |-> "dataset"]>>
    /\ locks = [l \in 1..MaxObjects |-> [owner |-> 0, count |-> 0]]
    /\ pc = [t \in Threads |-> "idle"]
    /\ frame = Call("", 0, 0, None)
    /\ new_calls = [o \in 1..MaxObjects |-> 0]
    /\ reads = [o \in 1..MaxObjects |-> {}]
    /\ next_array = 1
    /\ calls = 0
    /\ last = NoLast

\* resample_dataset(heap[o], matrix, size, tile_size, xy_dim_names, var_configs)
ResampleDataset(o, a) ==
    /\ Idle
    /\ frame' = Call("resample_dataset", o, 0, a)
    /\ Answers(Ok(resample_dataset_variables(heap[o], a.matrix, a.size, a.tile_size,
                                             a.xy_dim_names, a.var_configs)))

NextVariables ==
    \/ /\ Idle
       /\ \E o \in Objects, matrix \in Matrices, size \in Sizes,
             xy_dim_names \in XYDimNames, var_configs \in VarConfigs :
              ResampleDataset(o, [matrix |-> matrix, size |-> size, tile_size |-> <<2, 2>>,
                                  xy_dim_names |-> xy_dim_names,
                                  var_configs |-> var_configs])
    \/ Forget

SpecVariables == InitVariables /\ [][NextVariables]_vars

---------------------------------------------------------------------------
(* Properties of the variables that resample_dataset returns.              *)

SourceDataset == heap[frame.obj]
SpatialYX == <<frame.args.xy_dim_names[2], frame.args.xy_dim_names[1]>>

\* The variable ends with the dimensions (y, x).
EndsWithYX(var) ==
    /\ Len(var.dims) >= 2
    /\ var.dims[Len(var.dims) - 1] = SpatialYX[1]
    /\ var.dims[Len(var.dims)] = SpatialYX[2]

\* The variable has neither spatial dimension.
NotSpatial(var) ==
    \A n \in DOMAIN var.dims : var.dims[n] \notin {SpatialYX[1], SpatialYX[2]}

\* C29: the dataset that resample_dataset returns has the attributes of the
\* source and, as coordinates and as data variables, exactly the source's
\* variables that end with the dimensions (y, x) or have neither of them: the
\* former resampled to (height, width) with their dimension names, leading
\* sizes and attributes kept, the latter unchanged; all others are absent.
ResampledVariablesAreSelected ==
    (frame.op = "resample_dataset" /\ IsOk(last) /\ last # NoLast) =>
        LET source == SourceDataset
            result == last.val
            expected(vars_of) ==
                { k \in DOMAIN vars_of : EndsWithYX(vars_of[k]) \/ NotSpatial(vars_of[k]) }
            good(old, new) ==
                IF EndsWithYX(old)
                THEN /\ new.dims = old.dims
                     /\ new.attrs = old.attrs
                     /\ new.data.op = "resample_ndimage"
                     /\ new.data.image = old.data
                     /\ Len(new.shape) = Len(old.shape)
                     /\ \A n \in 1..(Len(old.shape) - 2) : new.shape[n] = old.shape[n]
                     /\ new.shape[Len(new.shape) - 1] = frame.args.size[2]
                     /\ new.shape[Len(new.shape)] = frame.args.size[1]
                ELSE new = old
        IN  /\ result.attrs = source.attrs
            /\ DOMAIN result.coords = expected(source.coords)
            /\ DOMAIN result.data_vars = expected(source.data_vars)
            /\ \A k \in DOMAIN result.coords : good(source.coords[k], result.coords[k])
            /\ \A k \in DOMAIN result.data_vars :
                   good(source.data_vars[k], result.data_vars[k])

\* A dataset with variables of all kinds has been resampled: some were
\* resampled, some copied and some left out.
ResampledCopiedAndDropped ==
    /\ frame.op = "resample_dataset" /\ IsOk(last) /\ last # NoLast
    /\ frame.args.xy_dim_names = <<"x", "y">>
    /\ DOMAIN SourceDataset.coords = {"x", "y", "time"}
    /\ DOMAIN SourceDataset.data_vars =
           {"chl", "mask", "crs", "transposed", "profile", "rgb", "time_bnds"}
    /\ DOMAIN last.val.coords = {"time"}
    /\ DOMAIN last.val.data_vars = {"chl", "mask", "crs", "time_bnds"}
    /\ last.val.data_vars["chl"].shape = <<2, frame.args.size[2], frame.args.size[1]>>

===========================================================================
